---- MODULE Spec2Model ----
(***************************************************************************)
(* Model of the research service: the WebSocketManager hub                 *)
(* (backend/services/websocket_manager.py), the job executor and the       *)
(* WebSocket endpoint (application.py) and the briefing fan-out under its  *)
(* semaphore (backend/nodes/briefing.py).                                  *)
(*                                                                         *)
(* Everything runs on one asyncio event loop: the code between two awaits  *)
(* of a task is one atomic action, and a task suspended at an await is     *)
(* resumed in an order the code does not control.                          *)
(***************************************************************************)
EXTENDS Integers, Sequences, FiniteSets, TLC

\* ---------------------------------------------------------------- bounds
NumSubs == 2
MaxPublish == 2
MaxStage == 1
MaxQueries == 2
MaxChunks == 3
MaxUpdates == 5

\* ------------------------------------------------------------ identities
Jobs == {"A", "B"}
\* The job id research() gave the run of process_research that is modelled.
JobA == "A"
Subs == 1..NumSubs
\* Task ids: the endpoint task of subscriber s is s, the executor of a job is
\* Exec, the generic publishing tasks (stage sub-tasks) are Pubs.
Exec == 0
Pubs == {-1, -2}
Tasks == Subs \cup {Exec} \cup Pubs

\* The briefing categories, in the order create_briefings lists them.
CategoryOrder == <<"financial", "news", "industry", "company">>
Categories == {CategoryOrder[i] : i \in DOMAIN CategoryOrder}
\* asyncio.Semaphore(2)
SemaphoreCapacity == 2

VARIABLES
    active_connections, \* WebSocketManager.active_connections: job id -> set
    frame,              \* frame[t]: the broadcast_to_job activation of task t
    inbox,              \* inbox[s]: events send_text handed to subscriber s
    job_status,         \* application.job_status: job id -> record
    wpc,                \* wpc[s]: position of websocket_endpoint for s
    wjob,               \* wjob[s]: the job id of s's endpoint
    epc,                \* position of process_research for job JobA
    nstage,             \* status updates the stages of graph.run have sent
    mongodb,            \* whether the MongoDB service is configured
    store,              \* the job's status in the durable store
    state,              \* process_research's dict state, filled from graph.run
    atAttach,           \* history: what had been published when s attached
    published,          \* history: events in the order send_status_update was called
    curated,            \* curated[c]: state['curated_<c>_data'] is non-empty
    bpc,                \* position of Briefing.create_briefings
    tpc,                \* tpc[c]: position of process_briefing for category c
    cancelling,         \* categories whose task has a cancellation pending
    sem_value,          \* briefing_semaphore._value
    sem_waiters,        \* briefing_semaphore._waiters, oldest first
    briefing_key,       \* briefing_key[c]: state['<c>_briefing']
    briefings,          \* keys of the local dict briefings
    state_briefings,    \* whether state['briefings'] was written
    calls,              \* history: calls[c]: outcomes of generate_content for c
    briefing_order,     \* the keys of the dict briefings in insertion order
    site_scrape,        \* state['site_scrape']: pages of the company's site
    apc,                \* apc[a]: position of analyze() of analyzer a
    queries,            \* queries[a]: the queries still to search
    a_data,             \* a_data[a]: the local dict news_data / industry_data
    writes,             \* writes[a]: the state keys a has assigned
    returns,            \* returns[a]: the keys of the dict a returned
    state_data,         \* state_data[a]: state.get('<a>_data', {})
    failure,            \* history: the external call of a that failed
    found,              \* history: found[a]: the documents a's searches returned
    response,           \* content_sweep: the chunks the stream is still to give
    finish,             \* how the stream ends: "stop", "end" or "error"
    accumulated_text,   \* content_sweep's accumulated_text
    buffer,             \* content_sweep's buffer
    spc,                \* position of content_sweep
    sweep_return,       \* what content_sweep returned
    upstream,           \* history: all the chunks of the stream
    stopped,            \* history: the chunk with finish_reason "stop" was met
    request,            \* history: the last update of a job_status record
    nupdates,           \* history: how many updates of job_status were made
    edpc,               \* position of Editor.run
    edited_report,      \* edit_report's edited_report
    compile_call,       \* history: how compile_content's generative call ended
    sweep_call,         \* history: how content_sweep's generative call ended
    nchunks,            \* history: report_chunk updates content_sweep has sent
    gpc,                \* position of GroundingNode.initial_search
    company_url,        \* whether the input state holds a company_url
    crawled,            \* history: how tavily_client.crawl ended
    error_str,          \* initial_search's error_str ("unbound" before the except clause)
    job_bpc,            \* job_bpc[j]: position of create_briefings of job j
    job_tpc,            \* job_tpc[j][c]: position of j's process_briefing for c
    job_semaphore,      \* job_semaphore[j]: _value of j's briefing_semaphore
    job_waiters         \* job_waiters[j]: _waiters of j's briefing_semaphore

execVars == <<epc, nstage, mongodb, store, state>>
\* The state of the analyzers: the hub, the job and the briefing stage leave
\* it alone.
analysisVars == <<site_scrape, apc, queries, a_data, writes, returns, state_data,
                  failure, found>>
sweepVars == <<response, finish, accumulated_text, buffer, spc, sweep_return,
               upstream, stopped>>
registryVars == <<request, nupdates>>
editorVars == <<edpc, edited_report, compile_call, sweep_call, nchunks>>
groundVars == <<gpc, company_url, crawled, error_str>>
limiterVars == <<job_bpc, job_tpc, job_semaphore, job_waiters>>
restVars == <<registryVars, editorVars, groundVars, limiterVars>>
stageVars == <<analysisVars, sweepVars, restVars>>
hubJobVars == <<active_connections, frame, inbox, job_status, wpc, wjob,
                epc, nstage, mongodb, store, state, atAttach, published>>
fanOutVars == <<curated, bpc, tpc, cancelling, sem_value, sem_waiters,
                briefing_key, briefings, state_briefings, calls, briefing_order>>
serviceVars == <<hubJobVars, stageVars>>
briefingVars == <<fanOutVars, stageVars>>
vars == <<active_connections, frame, inbox, job_status, wpc, wjob,
          epc, nstage, mongodb, store, state, atAttach, published,
          curated, bpc, tpc, cancelling, sem_value, sem_waiters,
          briefing_key, briefings, state_briefings, calls, briefing_order,
          site_scrape, apc, queries, a_data, writes, returns, state_data, failure,
          found,
          response, finish, accumulated_text, buffer, spc, sweep_return,
          upstream, stopped, request, nupdates,
          edpc, edited_report, compile_call, sweep_call, nchunks,
          gpc, company_url, crawled, error_str,
          job_bpc, job_tpc, job_semaphore, job_waiters>>

\* ------------------------------------------------------------- helpers
Min(S) == CHOOSE x \in S : \A y \in S : x <= y

Restrict(f, D) == [x \in D |-> f[x]]

\* self.active_connections.get(job_id, set())
ConnsOf(ac, j) == IF j \in DOMAIN ac THEN ac[j] ELSE {}

IdleFrame ==
    [pc |-> "idle", job |-> "A",
     ev |-> [id |-> 0, status |-> "none", error |-> "none", result |-> "none"],
     used |-> 0, todo |-> {}, mutated |-> FALSE, detached |-> FALSE,
     disconnected |-> {}, snapshot |-> {}, attempted |-> {}]

\* The events published for job j so far, in publication order.
Published(j) == SelectSeq(published, LAMBDA e : e.job = j)

Terminal == {"completed", "failed"}

\* The status of the last event of a sequence of published events.
LastStatus(evs) == IF evs = <<>> THEN "none" ELSE evs[Len(evs)].ev.status

\* The terminal events process_research itself has published for JobA.
ExecTerminal ==
    SelectSeq(published,
              LAMBDA e : e.job = JobA /\ e.by = Exec /\ e.ev.status \in Terminal)

\* What a subscriber attaching to job j finds: how many events were published
\* for j, the status of the most recent one, and the terminal status the
\* job's run has ended with ("none" while it has not ended).
NoView == [n |-> 0, last |-> "none", ended |-> "none"]
AttachView(j) ==
    [n |-> Len(Published(j)),
     last |-> LastStatus(Published(j)),
     ended |-> IF j = JobA /\ epc \in {"done", "escaped"}
               THEN LastStatus(ExecTerminal) ELSE "none"]

\* The frame of a broadcast that is over: it returned or it raised.
EndedFrame(how) == [IdleFrame EXCEPT !.pc = how]

\* ---------------------------------------------------- WebSocketManager
\* connect(): create the job's set when missing, add the socket.
ConnectMap(ac, s, j) ==
    [k \in DOMAIN ac \cup {j} |-> IF k = j THEN ConnsOf(ac, j) \cup {s} ELSE ac[k]]

\* What connect() does to the iterations in flight over the job's set: an
\* insertion changes the set's size and may move its entries.
ConnectFrames(fr, ac, s, j) ==
    [t \in DOMAIN fr |->
        IF fr[t].pc = "sending" /\ fr[t].job = j /\ ~fr[t].detached
           /\ j \in DOMAIN ac /\ s \notin ac[j]
        THEN [fr[t] EXCEPT !.mutated = TRUE]
        ELSE fr[t]]

\* A disconnect that discards the sockets and keeps the job's key.
DisconnectMapKeepJob(ac, D, j) ==
    IF j \notin DOMAIN ac THEN ac ELSE [ac EXCEPT ![j] = @ \ D]

\* A disconnect that drops the job's key whatever its set still holds.
DisconnectMapDropJob(ac, D, j) == Restrict(ac, DOMAIN ac \ {j})

\* disconnect() of every socket in D: discard, and delete the job's key once
\* its set is empty.
DisconnectMap(ac, D, j) ==
    IF j \notin DOMAIN ac THEN ac
    ELSE IF ac[j] \ D = {} THEN Restrict(ac, DOMAIN ac \ {j})
    ELSE [ac EXCEPT ![j] = @ \ D]

\* What disconnect() does to the iterations in flight: a discarded entry is
\* no longer met, and an iteration over a set that was emptied and dropped
\* from the map keeps iterating the old, now empty, set object.
DisconnectFrames(fr, ac, D, j) ==
    [t \in DOMAIN fr |->
        IF fr[t].pc = "sending" /\ fr[t].job = j /\ ~fr[t].detached
           /\ j \in DOMAIN ac
        THEN [fr[t] EXCEPT !.todo = @ \ D, !.detached = (ac[j] \ D = {})]
        ELSE fr[t]]

\* One step of the loop `for connection in self.active_connections[job_id]`
\* of task t, from frame f, with the map ac and the frames fr as the caller
\* left them: the set iterator raises RuntimeError when the set's size differs
\* from the size it started with; otherwise it yields the next entry and
\* send_text is awaited, or the loop ends and the sockets whose send failed
\* are disconnected.
Advance(t, f, ac, fr) ==
    LET cur == ConnsOf(ac, f.job) IN
    IF f.detached \/ Cardinality(cur) # f.used
    THEN /\ frame' = [fr EXCEPT ![t] = EndedFrame("raised")]
         /\ active_connections' = ac
         /\ UNCHANGED inbox
    ELSE \E todo0 \in (IF f.mutated THEN SUBSET cur ELSE {f.todo}) :
         IF todo0 = {}
         THEN /\ active_connections' = DisconnectMap(ac, f.disconnected, f.job)
              /\ frame' = [DisconnectFrames(fr, ac, f.disconnected, f.job)
                            EXCEPT ![t] = EndedFrame("returned")]
              /\ UNCHANGED inbox
         ELSE LET c == Min(todo0) IN
              \E ok \in BOOLEAN :
              /\ inbox' = IF ok THEN [inbox EXCEPT ![c] = Append(@, f.ev)]
                                ELSE inbox
              /\ frame' = [fr EXCEPT ![t] =
                    [f EXCEPT !.pc = "sending",
                              !.todo = todo0 \ {c},
                              !.mutated = FALSE,
                              !.attempted = @ \cup {c},
                              !.disconnected =
                                  IF ok THEN @ ELSE @ \cup {c}]]
              /\ active_connections' = ac

\* broadcast_to_job without its membership test: the loop's
\* self.active_connections[job_id] raises KeyError for an unknown job.
BroadcastBeginUnguarded(t, j, ev, ac, fr) ==
    IF j \notin DOMAIN ac
    THEN /\ frame' = [fr EXCEPT ![t] = EndedFrame("raised")]
         /\ active_connections' = ac
         /\ UNCHANGED inbox
    ELSE Advance(t, [IdleFrame EXCEPT !.job = j, !.ev = ev,
                                      !.used = Cardinality(ac[j]),
                                      !.todo = ac[j],
                                      !.snapshot = ac[j]], ac, fr)

\* broadcast_to_job looping over the connections of every job.
BroadcastBeginAllJobs(t, j, ev, ac, fr) ==
    IF j \notin DOMAIN ac
    THEN /\ frame' = [fr EXCEPT ![t] = EndedFrame("returned")]
         /\ active_connections' = ac
         /\ UNCHANGED inbox
    ELSE Advance(t, [IdleFrame EXCEPT !.job = j, !.ev = ev,
                                      !.used = Cardinality(ac[j]),
                                      !.todo = UNION {ac[k] : k \in DOMAIN ac},
                                      !.snapshot = ac[j]], ac, fr)

\* broadcast_to_job(job_id, message) called by task t, up to its first await.
BroadcastBegin(t, j, ev, ac, fr) ==
    IF j \notin DOMAIN ac
    THEN /\ frame' = [fr EXCEPT ![t] = EndedFrame("returned")]
         /\ active_connections' = ac
         /\ UNCHANGED inbox
    ELSE Advance(t, [IdleFrame EXCEPT !.job = j, !.ev = ev,
                                      !.used = Cardinality(ac[j]),
                                      !.todo = ac[j],
                                      !.snapshot = ac[j]], ac, fr)

\* send_status_update(job_id, status, message, error, result) called by
\* task t: result stands for the report or the chunk the dict result carries.
SendUpdate(t, j, status, error, result, ac, fr) ==
    LET ev == [id |-> Len(published) + 1, status |-> status,
               error |-> error, result |-> result] IN
    /\ published' = Append(published, [job |-> j, ev |-> ev, by |-> t])
    /\ BroadcastBegin(t, j, ev, ac, fr)

\* send_status_update(job_id, status, message): no error, no result.
SendStatusUpdate(t, j, status, ac, fr) ==
    SendUpdate(t, j, status, "none", "none", ac, fr)

\* The awaited send_text of task t completes and the loop goes on.
Resume(t) ==
    /\ frame[t].pc = "sending"
    /\ Advance(t, frame[t], active_connections, frame)
    /\ UNCHANGED <<job_status, wpc, wjob, published, atAttach, execVars, briefingVars>>

\* ------------------------------------------------- websocket_endpoint
\* accept, manager.connect, and the status replay when the job has a record.
Attach(s, j) ==
    /\ wpc[s] = "new"
    /\ wjob' = [wjob EXCEPT ![s] = j]
    /\ LET ac1 == ConnectMap(active_connections, s, j)
           fr1 == ConnectFrames(frame, active_connections, s, j)
       IN IF j \in DOMAIN job_status
          THEN /\ SendUpdate(s, j, job_status[j].status, job_status[j].error,
                             job_status[j].result, ac1, fr1)
               /\ wpc' = [wpc EXCEPT ![s] = "replay"]
          ELSE /\ active_connections' = ac1
               /\ frame' = fr1
               /\ wpc' = [wpc EXCEPT ![s] = "listening"]
               /\ UNCHANGED <<inbox, published>>
    /\ atAttach' = [atAttach EXCEPT ![s] = AttachView(j)]
    /\ UNCHANGED <<job_status, execVars, briefingVars>>

\* The replay's send_status_update is over: the endpoint waits in
\* receive_text, or (the broadcast raised) disconnects in its handler.
AttachDone(s) ==
    /\ wpc[s] = "replay"
    /\ frame[s].pc \in {"returned", "raised"}
    /\ IF frame[s].pc = "returned"
       THEN /\ wpc' = [wpc EXCEPT ![s] = "listening"]
            /\ frame' = [frame EXCEPT ![s] = IdleFrame]
            /\ UNCHANGED active_connections
       ELSE /\ wpc' = [wpc EXCEPT ![s] = "closed"]
            /\ active_connections' =
                   DisconnectMap(active_connections, {s}, wjob[s])
            /\ frame' = [DisconnectFrames(frame, active_connections, {s}, wjob[s])
                           EXCEPT ![s] = IdleFrame]
    /\ UNCHANGED <<inbox, job_status, wjob, published, atAttach, execVars, briefingVars>>

\* receive_text raises WebSocketDisconnect: manager.disconnect, leave.
Detach(s) ==
    /\ wpc[s] = "listening"
    /\ wpc' = [wpc EXCEPT ![s] = "closed"]
    /\ active_connections' = DisconnectMap(active_connections, {s}, wjob[s])
    /\ frame' = DisconnectFrames(frame, active_connections, {s}, wjob[s])
    /\ UNCHANGED <<inbox, job_status, wjob, published, atAttach, execVars, briefingVars>>

\* ---------------------------------------------------- publishing tasks
\* A task of a running stage (a briefing sub-task, an analyzer) calls
\* send_status_update for its job; a call that raised has ended the task.
PubCall(p, j) ==
    /\ frame[p].pc \in {"idle", "returned"}
    /\ Len(published) < MaxPublish
    /\ SendStatusUpdate(p, j, "processing", active_connections, frame)
    /\ UNCHANGED <<job_status, wpc, wjob, atAttach, execVars, briefingVars>>

\* ---------------------------------------------------- process_research
\* The except clause of process_research: publish a failed event (the update
\* of the durable store follows in HandlerDone).
Handler(ac, fr) ==
    /\ SendUpdate(Exec, JobA, "failed", "exception", "none", ac, fr)
    /\ epc' = "h_publish"

\* research() has created the task: create_job in the durable store when one
\* is configured, then asyncio.sleep(1).
Start ==
    /\ epc = "start"
    /\ \/ /\ store' = IF mongodb THEN "pending" ELSE store
          /\ epc' = "sleep"
          /\ UNCHANGED <<active_connections, frame, inbox, published>>
       \/ /\ mongodb
          /\ Handler(active_connections, frame)
          /\ UNCHANGED store
    /\ UNCHANGED <<job_status, wpc, wjob, atAttach, nstage, mongodb, state, briefingVars>>

\* The sleep is over: send_status_update(status="processing").
Processing ==
    /\ epc = "sleep"
    /\ SendStatusUpdate(Exec, JobA, "processing", active_connections, frame)
    /\ epc' = "p_publish"
    /\ UNCHANGED <<job_status, wpc, wjob, atAttach, nstage, mongodb, state, store, briefingVars>>

\* A send_status_update awaited inside the try block is over: go on, or
\* (it raised) enter the except clause.
AfterPublish ==
    /\ epc \in {"p_publish", "g_publish", "c_publish", "f_publish"}
    /\ frame[Exec].pc \in {"returned", "raised"}
    /\ IF frame[Exec].pc = "raised"
       THEN Handler(active_connections, frame)
       ELSE /\ epc' = IF epc \in {"p_publish", "g_publish"} THEN "graph" ELSE "done"
            /\ frame' = [frame EXCEPT ![Exec] = IdleFrame]
            /\ UNCHANGED <<active_connections, inbox, published>>
    /\ UNCHANGED <<job_status, wpc, wjob, atAttach, nstage, mongodb, state, store, briefingVars>>

\* A stage of graph.run sends a status update on the job's task.
StagePublish ==
    /\ epc = "graph"
    /\ nstage < MaxStage
    /\ nstage' = nstage + 1
    /\ SendStatusUpdate(Exec, JobA, "processing", active_connections, frame)
    /\ epc' = "g_publish"
    /\ UNCHANGED <<job_status, wpc, wjob, atAttach, mongodb, state, store, briefingVars>>

\* The record job_status creates for a job id it does not hold.
DefaultRecord ==
    [status |-> "pending", result |-> "none", error |-> "none",
     debug_info |-> <<>>, report |-> "none"]

\* job_status[job_id].update({"status": "completed", "report": ...}): the
\* record of job j, created with the defaults when the registry has none, is
\* overwritten in place.
UpdateRecord(js, j, r) ==
    [k \in DOMAIN js \cup {j} |->
        IF k = j
        THEN [(IF j \in DOMAIN js THEN js[j] ELSE DefaultRecord)
                 EXCEPT !.status = "completed", !.report = r]
        ELSE js[k]]

\* A run that leaves the registry as it is when it has found the report.
MarkNothing(js, r) == js

\* The registry update of a run that found the report r.
MarkCompleted(js, r) == UpdateRecord(js, JobA, r)

\* get_research_report(job_id) without a durable store: the report of the
\* registry record, "none" for the 404 answer.
GetResearchReport(js, j) ==
    IF j \in DOMAIN js /\ js[j].report # "none" THEN js[j].report ELSE "none"

\* The reports the editor can produce.
Reports == {"r1", "r2"}
EmptyState == [error |-> "none", report |-> "none", editor |-> "none", briefed |-> FALSE]

\* GroundingNode.initial_search: the crawl's exception is put into the
\* state's error; the research goes on.
InitialSearch(crawl) ==
    [EmptyState EXCEPT !.error = IF crawl = "raised" THEN "crawl" ELSE "none"]

\* Editor.run on the state st whose briefing keys are bk: without any
\* briefing nothing is compiled; otherwise edit_report gives edited ("none":
\* an empty result or an exception) and stores a report under both keys.
EditorRun(st, bk, edited) ==
    LET individual_briefings == {c \in Categories : bk[c] = "content"} IN
    IF individual_briefings = {} THEN st
    ELSE IF edited = "none" THEN [st EXCEPT !.briefed = TRUE]
    ELSE [st EXCEPT !.briefed = TRUE, !.report = edited, !.editor = edited]

\* The states graph.run can leave in process_research's dict: the grounding
\* stage's state, briefed by the briefing stage and edited by the editor.
FinalStates ==
    {EditorRun(InitialSearch(crawl), bk, edited) :
        crawl \in {"none", "ok", "raised"},
        bk \in [Categories -> {"content", "empty"}],
        edited \in Reports \cup {"none"}}

\* report_content = state.get('report') or (state.get('editor') or {}).get('report')
ReportContent(st) == IF st.report # "none" THEN st.report ELSE st.editor

\* graph.run is over with a report in the final state, one of the states S:
\* update the registry, write the durable store (either call may raise) and
\* publish completed.
GraphReportOf(S) ==
    /\ epc = "graph"
    /\ \E st \in S :
          /\ ReportContent(st) # "none"
          /\ state' = st
    /\ job_status' = MarkCompleted(job_status, ReportContent(state'))
    /\ \/ /\ store' = IF mongodb THEN "completed" ELSE store
          /\ SendUpdate(Exec, JobA, "completed", "none", ReportContent(state'),
                        active_connections, frame)
          /\ epc' = "c_publish"
       \/ /\ mongodb
          /\ store' \in {store, "completed"}
          /\ Handler(active_connections, frame)
    /\ UNCHANGED <<wpc, wjob, atAttach, nstage, mongodb, briefingVars>>

GraphReport == GraphReportOf(FinalStates)

\* graph.run is over and the final state, one of the states S, holds no
\* report: publish failed.
GraphNoReportOf(S) ==
    /\ epc = "graph"
    /\ \E st \in S :
          /\ ReportContent(st) = "none"
          /\ state' = st
    /\ SendUpdate(Exec, JobA, "failed",
                  IF state'.error # "none" THEN "Erreur : crawl"
                  ELSE "Aucun rapport trouve",
                  "none", active_connections, frame)
    /\ epc' = "f_publish"
    /\ UNCHANGED <<job_status, wpc, wjob, atAttach, nstage, mongodb, store, briefingVars>>

GraphNoReport == GraphNoReportOf(FinalStates)

\* A stage of graph.run raised.
GraphRaise ==
    /\ epc = "graph"
    /\ Handler(active_connections, frame)
    /\ UNCHANGED <<job_status, wpc, wjob, atAttach, nstage, mongodb, state, store, briefingVars>>

\* The except clause's send_status_update is over: update_job(failed) in the
\* durable store; an exception of either leaves process_research.
HandlerDone ==
    /\ epc = "h_publish"
    /\ frame[Exec].pc \in {"returned", "raised"}
    /\ frame' = [frame EXCEPT ![Exec] = IdleFrame]
    /\ IF frame[Exec].pc = "raised"
       THEN epc' = "escaped" /\ UNCHANGED store
       ELSE \/ /\ epc' = "done"
               /\ store' = IF mongodb THEN "failed" ELSE store
            \/ /\ mongodb
               /\ epc' = "escaped"
               /\ UNCHANGED store
    /\ UNCHANGED <<active_connections, inbox, job_status, wpc, wjob, atAttach,
                   nstage, mongodb, state, published, briefingVars>>

\* The host cancels the job's task (a shutdown) while it is suspended in
\* asyncio.sleep, in a send_text of a status update or in graph.run: the
\* CancelledError raised at the await is no Exception, so it passes the
\* except clause of process_research (and of broadcast_to_job) and ends the
\* task.
CancelJob ==
    /\ \/ epc \in {"sleep", "graph"}
       \/ /\ epc \in {"p_publish", "g_publish", "c_publish", "f_publish", "h_publish"}
          /\ frame[Exec].pc = "sending"
    /\ epc' = "cancelled"
    /\ frame' = [frame EXCEPT ![Exec] = IdleFrame]
    /\ UNCHANGED <<active_connections, inbox, job_status, wpc, wjob, atAttach,
                   nstage, mongodb, store, state, published, briefingVars>>

\* ------------------------------------------------ Briefing.create_briefings
\* The place of category c in the order the tasks are created.
Pos(c) == CHOOSE i \in DOMAIN CategoryOrder : CategoryOrder[i] = c

\* Positions of a task inside the `async with briefing_semaphore` block,
\* suspended in a send_status_update of generate_category_briefing.
Holding == {"start_pub", "done_pub"}
Ended == {"finished", "raised", "cancelled"}

\* asyncio.Semaphore.locked(): no free token, or a waiter that was not
\* cancelled is still to run.
LockedNever == FALSE
Locked ==
    \/ sem_value = 0
    \/ sem_waiters # <<>>
    \/ \E c \in Categories : tpc[c] = "admitted" /\ c \notin cancelling

\* asyncio.Semaphore.release(): the token goes to the oldest waiter, or back
\* to the counter.
SemReleaseNoWake(v, w, tp) == [value |-> v + 1, waiters |-> w, tpc |-> tp]
SemRelease(v, w, tp) ==
    IF w # <<>>
    THEN [value |-> v, waiters |-> Tail(w), tpc |-> [tp EXCEPT ![Head(w)] = "admitted"]]
    ELSE [value |-> v + 1, waiters |-> w, tpc |-> tp]

\* Leaving the `async with briefing_semaphore` block of process_briefing by
\* a return, by an exception or by the task's cancellation.
ExitReleaseOnReturnOnly(how, v, w, tp) ==
    IF how = "return" THEN SemRelease(v, w, tp)
    ELSE [value |-> v, waiters |-> w, tpc |-> tp]
ExitRelease(how, v, w, tp) == SemRelease(v, w, tp)

\* create_briefings starts: the initial status update is awaited.
BriefStart ==
    /\ bpc = "start"
    /\ bpc' = "init_pub"
    /\ UNCHANGED <<serviceVars, calls, briefing_order, curated, tpc, cancelling, sem_value, sem_waiters,
                   briefing_key, briefings, state_briefings>>

\* The initial status update raised: create_briefings ends with its exception.
BriefInitRaise ==
    /\ bpc = "init_pub"
    /\ bpc' = "raised"
    /\ UNCHANGED <<serviceVars, calls, briefing_order, curated, tpc, cancelling, sem_value, sem_waiters,
                   briefing_key, briefings, state_briefings>>

\* The loop over the categories: a category without curated data gets an
\* empty briefing, each other one a task; with no task state['briefings'] is
\* written at once, otherwise the tasks are gathered.
BriefFanOut ==
    /\ bpc = "init_pub"
    /\ briefing_key' = [c \in Categories |->
                           IF curated[c] THEN briefing_key[c] ELSE "empty"]
    /\ tpc' = [c \in Categories |-> IF curated[c] THEN "created" ELSE "none"]
    /\ IF \E c \in Categories : curated[c]
       THEN bpc' = "gather" /\ UNCHANGED state_briefings
       ELSE bpc' = "returned" /\ state_briefings' = TRUE
    /\ UNCHANGED <<serviceVars, calls, briefing_order, curated, cancelling, sem_value, sem_waiters, briefings>>

\* process_briefing of category c runs for the first time, after the tasks
\* created before it: it takes a token and awaits the briefing_start update,
\* or queues on the semaphore.
TaskStart(c) ==
    /\ tpc[c] = "created"
    /\ c \notin cancelling
    /\ \A d \in Categories : Pos(d) < Pos(c) => tpc[d] # "created"
    /\ IF ~Locked
       THEN /\ sem_value' = sem_value - 1
            /\ tpc' = [tpc EXCEPT ![c] = "start_pub"]
            /\ UNCHANGED sem_waiters
       ELSE /\ sem_waiters' = Append(sem_waiters, c)
            /\ tpc' = [tpc EXCEPT ![c] = "waiting"]
            /\ UNCHANGED sem_value
    /\ UNCHANGED <<serviceVars, calls, briefing_order, curated, bpc, cancelling, briefing_key, briefings,
                   state_briefings>>

\* A waiter that was given a token runs again: acquire() passes a free token
\* on to the next waiter, and the briefing_start update is awaited.
Enter(c) ==
    /\ tpc[c] = "admitted"
    /\ c \notin cancelling
    /\ IF sem_value > 0 /\ sem_waiters # <<>>
       THEN /\ sem_value' = sem_value - 1
            /\ sem_waiters' = Tail(sem_waiters)
            /\ tpc' = [tpc EXCEPT ![c] = "start_pub", ![Head(sem_waiters)] = "admitted"]
       ELSE /\ tpc' = [tpc EXCEPT ![c] = "start_pub"]
            /\ UNCHANGED <<sem_value, sem_waiters>>
    /\ UNCHANGED <<serviceVars, calls, briefing_order, curated, bpc, cancelling, briefing_key, briefings,
                   state_briefings>>

\* The briefing_start update raised: the exception leaves
\* generate_category_briefing and the block, and gather passes the first
\* exception on to create_briefings.
StartPubRaise(c) ==
    /\ tpc[c] = "start_pub"
    /\ c \notin cancelling
    /\ LET r == ExitRelease("raise", sem_value, sem_waiters, tpc) IN
       /\ sem_value' = r.value
       /\ sem_waiters' = r.waiters
       /\ tpc' = [r.tpc EXCEPT ![c] = "raised"]
    /\ bpc' = IF bpc = "gather" THEN "raised" ELSE bpc
    /\ UNCHANGED <<serviceVars, calls, briefing_order, curated, cancelling, briefing_key, briefings,
                   state_briefings>>

\* The briefing_start update returned and generate_content ran: with content
\* the briefing_complete update is awaited; an empty response or an exception
\* gives the content '' and the task stores it and leaves the block.
Generate(c, outcome) ==
    /\ tpc[c] = "start_pub"
    /\ c \notin cancelling
    /\ IF outcome = "content"
       THEN /\ tpc' = [tpc EXCEPT ![c] = "done_pub"]
            /\ UNCHANGED <<sem_value, sem_waiters, briefing_key>>
       ELSE LET r == ExitRelease("return", sem_value, sem_waiters, tpc) IN
            /\ sem_value' = r.value
            /\ sem_waiters' = r.waiters
            /\ tpc' = [r.tpc EXCEPT ![c] = "finished"]
            /\ briefing_key' = [briefing_key EXCEPT ![c] = "empty"]
    /\ calls' = [calls EXCEPT ![c] = Append(@, outcome)]
    /\ UNCHANGED <<serviceVars, briefing_order, curated, bpc, cancelling, briefings, state_briefings>>

\* The briefing_complete update is over: the content is stored, or (the
\* update raised inside the try block) the content is ''.
Complete(c, ok) ==
    /\ tpc[c] = "done_pub"
    /\ c \notin cancelling
    /\ LET r == ExitRelease("return", sem_value, sem_waiters, tpc) IN
       /\ sem_value' = r.value
       /\ sem_waiters' = r.waiters
       /\ tpc' = [r.tpc EXCEPT ![c] = "finished"]
    /\ briefing_key' = [briefing_key EXCEPT ![c] = IF ok THEN "content" ELSE "empty"]
    /\ briefings' = IF ok THEN briefings \cup {c} ELSE briefings
    /\ briefing_order' = IF ok THEN Append(briefing_order, c) ELSE briefing_order
    /\ UNCHANGED <<serviceVars, calls, curated, bpc, cancelling, state_briefings>>

\* asyncio.gather's result is set when the last of its tasks has returned.
AnyGathered == \E c \in Categories : tpc[c] = "finished"
AllGathered == \A c \in Categories : tpc[c] \in {"none", "finished"}

\* gather returns once every task has returned: state['briefings'] is written.
Join ==
    /\ bpc = "gather"
    /\ AllGathered
    /\ bpc' = "returned"
    /\ state_briefings' = TRUE
    /\ UNCHANGED <<serviceVars, calls, briefing_order, curated, tpc, cancelling, sem_value, sem_waiters,
                   briefing_key, briefings>>

\* The host cancels the job's task while it awaits: gather cancels every
\* task that has not ended, and the futures of the waiters are cancelled.
Cancel ==
    /\ bpc \in {"init_pub", "gather"}
    /\ IF bpc = "init_pub"
       THEN bpc' = "cancelled" /\ UNCHANGED <<cancelling, sem_waiters>>
       ELSE /\ bpc' = "cancelling"
            /\ cancelling' = {c \in Categories : tpc[c] \notin Ended \cup {"none"}}
            /\ sem_waiters' = <<>>
    /\ UNCHANGED <<serviceVars, calls, briefing_order, curated, tpc, sem_value, briefing_key, briefings,
                   state_briefings>>

\* CancelledError reaches the task of category c at its await: a task inside
\* the block leaves it, a waiter that was already given a token returns it.
Cancelled(c) ==
    /\ c \in cancelling
    /\ cancelling' = cancelling \ {c}
    /\ IF tpc[c] \in Holding
       THEN LET r == ExitRelease("cancel", sem_value, sem_waiters, tpc) IN
            /\ sem_value' = r.value
            /\ sem_waiters' = r.waiters
            /\ tpc' = [r.tpc EXCEPT ![c] = "cancelled"]
       ELSE IF tpc[c] = "admitted"
       THEN LET r == SemRelease(sem_value, sem_waiters, tpc) IN
            /\ sem_value' = r.value
            /\ sem_waiters' = r.waiters
            /\ tpc' = [r.tpc EXCEPT ![c] = "cancelled"]
       ELSE /\ tpc' = [tpc EXCEPT ![c] = "cancelled"]
            /\ UNCHANGED <<sem_value, sem_waiters>>
    /\ UNCHANGED <<serviceVars, calls, briefing_order, curated, bpc, briefing_key, briefings, state_briefings>>

\* Every cancelled task has ended: create_briefings ends cancelled.
CancelDone ==
    /\ bpc = "cancelling"
    /\ cancelling = {}
    /\ bpc' = "cancelled"
    /\ UNCHANGED <<serviceVars, calls, briefing_order, curated, tpc, cancelling, sem_value, sem_waiters,
                   briefing_key, briefings, state_briefings>>

\* ------------------------------------------------ researchers: analyze
\* The analyzers of src: NewsScanner and IndustryAnalyzer.
Analyzers == {"news", "industry"}
\* The state key analyzer a stores its documents under.
DataKey(a) == IF a = "news" THEN "news_data" ELSE "industry_data"
\* The documents query number q of analyzer a can bring, and the page the
\* crawl of the company's site brought.
Doc(a, q) == <<a, q>>
SitePage == <<"site", 0>>

InitAnalysisIdle ==
    /\ site_scrape = {}
    /\ apc = [a \in Analyzers |-> "none"]
    /\ queries = [a \in Analyzers |-> 0]
    /\ a_data = [a \in Analyzers |-> {}]
    /\ writes = [a \in Analyzers |-> {}]
    /\ returns = [a \in Analyzers |-> {}]
    /\ state_data = [a \in Analyzers |-> {}]
    /\ failure = [a \in Analyzers |-> "none"]
    /\ found = [a \in Analyzers |-> {}]

\* BaseResearcher.generate_queries: the queries the generative service gave;
\* a failure of the call is caught there and leaves no query.
GenerateQueries(failed, n) == IF failed THEN 0 ELSE n

\* analyze() from its start to its first await after generate_queries: the
\* sub-queries message is put into state['messages']; the industry analyzer
\* then awaits a status update, the news scanner starts its searches with the
\* site's pages in its data.
AnalyzeStart(a, failed, n) ==
    /\ apc[a] = "start"
    /\ queries' = [queries EXCEPT ![a] = GenerateQueries(failed, n)]
    /\ writes' = [writes EXCEPT ![a] = @ \cup {"messages"}]
    /\ failure' = [failure EXCEPT ![a] = IF failed THEN "queries" ELSE @]
    /\ IF a = "industry"
       THEN apc' = [apc EXCEPT ![a] = "queries_pub"] /\ UNCHANGED a_data
       ELSE /\ apc' = [apc EXCEPT ![a] = "search"]
            /\ a_data' = [a_data EXCEPT ![a] = site_scrape]
    /\ UNCHANGED <<hubJobVars, fanOutVars, restVars, sweepVars, site_scrape, returns, state_data,
                   found>>

\* The end of analyze(): the findings message and the data are assigned to
\* the state, and the dict {'message', '<a>_data'} is returned.
Finish(a, data) ==
    /\ apc' = [apc EXCEPT ![a] = "returned"]
    /\ writes' = [writes EXCEPT ![a] = @ \cup {"messages", DataKey(a)}]
    /\ returns' = [returns EXCEPT ![a] = {"message", DataKey(a)}]
    /\ state_data' = [state_data EXCEPT ![a] = data]

\* The industry analyzer's status update after the queries, outside the try
\* block: its exception ends analyze().
QueriesPublished(a, ok) ==
    /\ apc[a] = "queries_pub"
    /\ IF ok
       THEN /\ apc' = [apc EXCEPT ![a] = "search"]
            /\ a_data' = [a_data EXCEPT ![a] = site_scrape]
       ELSE /\ apc' = [apc EXCEPT ![a] = "raised"]
            /\ UNCHANGED a_data
    /\ UNCHANGED <<hubJobVars, fanOutVars, restVars, sweepVars, site_scrape, queries, writes, returns,
                   state_data, failure, found>>

\* An exception inside the try block of analyze(): caught, the analyzer goes
\* on to its end with the data gathered so far.
ExceptUncaught(a) ==
    /\ apc' = [apc EXCEPT ![a] = "raised"]
    /\ UNCHANGED <<writes, returns, state_data>>
Except(a) == Finish(a, a_data[a])

\* The documents a search of analyzer a for its query number q returns,
\* keyed by URL: a document of its own, a document under the URL of the
\* site's page, or none.
Documents(a, q, outcome) ==
    IF outcome = "documents" THEN {Doc(a, q)}
    ELSE IF outcome = "site_url" THEN {SitePage}
    ELSE {}

\* A store that keeps only the documents of the last search.
StoreOnly(data, documents) == documents
\* for url, doc in documents.items(): <a>_data[url] = doc
Store(data, documents) == data \cup documents

\* search_documents for the next query is over: its documents are added
\* under their URLs, or it raised.
Search(a, outcome) ==
    /\ apc[a] = "search"
    /\ queries[a] > 0
    /\ IF outcome = "raise"
       THEN /\ Except(a)
            /\ failure' = [failure EXCEPT ![a] = "search"]
            /\ UNCHANGED <<queries, a_data, found>>
       ELSE /\ queries' = [queries EXCEPT ![a] = @ - 1]
            /\ a_data' = [a_data EXCEPT ![a] =
                              Store(@, Documents(a, queries[a], outcome))]
            /\ found' = [found EXCEPT ![a] = @ \cup Documents(a, queries[a], outcome)]
            /\ UNCHANGED <<apc, writes, returns, state_data, failure>>
    /\ UNCHANGED <<hubJobVars, fanOutVars, restVars, sweepVars, site_scrape>>

\* Every query was searched: the status update with the number of documents
\* is awaited, inside the try block.
SearchDone(a) ==
    /\ apc[a] = "search"
    /\ queries[a] = 0
    /\ apc' = [apc EXCEPT ![a] = "found_pub"]
    /\ UNCHANGED <<hubJobVars, fanOutVars, restVars, sweepVars, site_scrape, queries, a_data, writes,
                   returns, state_data, failure, found>>

\* That status update is over, or it raised and was caught.
FoundPublished(a, ok) ==
    /\ apc[a] = "found_pub"
    /\ IF ok THEN Finish(a, a_data[a]) ELSE Except(a)
    /\ UNCHANGED <<hubJobVars, fanOutVars, restVars, sweepVars, site_scrape, queries, a_data, failure,
                   found>>

\* ------------------------------------------------- Editor.content_sweep
\* Texts are sequences of characters.
Sec == <<"S", "e", "c">>
Tion == <<"t", "i", "o", "n", " ", "1", ".", "\n">>
\* The delta.content of a chunk: a text, or nothing.
ChunkTexts == {Sec, Tion, <<>>}
\* The compiled report content_sweep is given.
Content == <<"#", " ", "R", "\n">>

\* str.strip()
RECURSIVE LStrip(_)
LStrip(t) == IF t # <<>> /\ Head(t) \in {" ", "\n"} THEN LStrip(Tail(t)) ELSE t
RECURSIVE RStrip(_)
RStrip(t) ==
    IF t # <<>> /\ t[Len(t)] \in {" ", "\n"} THEN RStrip(SubSeq(t, 1, Len(t) - 1)) ELSE t
Strip(t) == RStrip(LStrip(t))

\* A flush condition that looks for a terminator only.
FlushOnTerminator(b) == \E i \in DOMAIN b : b[i] \in {".", "!", "?", "\n"}

\* any(char in buffer for char in ['.', '!', '?', '\n']) and len(buffer) > 10
FlushCondition(b) ==
    /\ \E i \in DOMAIN b : b[i] \in {".", "!", "?", "\n"}
    /\ Len(b) > 10

\* The buffer after a flushed chunk event: buffer = "".
BufferKept(b) == b
BufferAfterFlush(b) == <<>>

InitSweepIdle ==
    /\ response = <<>>
    /\ finish = "none"
    /\ accumulated_text = <<>>
    /\ buffer = <<>>
    /\ spc = "none"
    /\ sweep_return = <<>>
    /\ upstream = <<>>
    /\ stopped = FALSE

\* The except clause of content_sweep: the given content, stripped.
SweepExcept ==
    /\ sweep_return' = Strip(Content)
    /\ spc' = "returned"

\* The streaming completion call is over: the stream is open, or it raised.
SweepCreate(ok) ==
    /\ spc = "create"
    /\ IF ok
       THEN spc' = "stream" /\ UNCHANGED sweep_return
       ELSE SweepExcept
    /\ UNCHANGED <<hubJobVars, fanOutVars, restVars, analysisVars, response, finish,
                   accumulated_text, buffer, upstream, stopped>>

\* The stream gives a chunk without finish_reason "stop": its text, if any,
\* is added to accumulated_text and to the buffer, and the buffer is sent as
\* a report_chunk event when the flush condition holds.
SweepChunk ==
    /\ spc = "stream"
    /\ response # <<>>
    /\ response' = Tail(response)
    /\ LET chunk_text == Head(response) IN
       IF chunk_text = <<>>
       THEN UNCHANGED <<hubJobVars, accumulated_text, buffer, spc>>
       ELSE /\ accumulated_text' = accumulated_text \o chunk_text
            /\ buffer' = buffer \o chunk_text
            /\ IF FlushCondition(buffer')
               THEN /\ SendUpdate(Exec, JobA, "report_chunk", "none", buffer',
                                  active_connections, frame)
                    /\ spc' = "flush_pub"
                    /\ UNCHANGED <<job_status, wpc, wjob, atAttach, execVars>>
               ELSE UNCHANGED <<hubJobVars, spc>>
    /\ UNCHANGED <<fanOutVars, restVars, analysisVars, finish, sweep_return, upstream, stopped>>

\* The status update of a flush is over: the buffer is emptied, or (it
\* raised) the except clause returns.
SweepFlushed ==
    /\ spc = "flush_pub"
    /\ frame[Exec].pc \in {"returned", "raised"}
    /\ frame' = [frame EXCEPT ![Exec] = IdleFrame]
    /\ IF frame[Exec].pc = "returned"
       THEN /\ buffer' = BufferAfterFlush(buffer)
            /\ spc' = "stream"
            /\ UNCHANGED sweep_return
       ELSE /\ SweepExcept
            /\ UNCHANGED buffer
    /\ UNCHANGED <<active_connections, inbox, job_status, wpc, wjob, atAttach,
                   published, execVars, fanOutVars, restVars, analysisVars, response, finish,
                   accumulated_text, upstream, stopped>>

\* The chunk with finish_reason "stop": what is left in the buffer is sent
\* as a last report_chunk event, and the loop is left.
SweepStop ==
    /\ spc = "stream"
    /\ response = <<>>
    /\ finish = "stop"
    /\ stopped' = TRUE
    /\ IF buffer # <<>>
       THEN /\ SendUpdate(Exec, JobA, "report_chunk", "none", buffer,
                          active_connections, frame)
            /\ spc' = "final_pub"
            /\ UNCHANGED <<job_status, wpc, wjob, atAttach, execVars, sweep_return>>
       ELSE /\ sweep_return' = Strip(accumulated_text)
            /\ spc' = "returned"
            /\ UNCHANGED hubJobVars
    /\ UNCHANGED <<fanOutVars, restVars, analysisVars, response, finish, accumulated_text,
                   buffer, upstream>>

\* The last status update is over: the accumulated text is returned,
\* stripped, or (it raised) the except clause returns.
SweepFinalFlushed ==
    /\ spc = "final_pub"
    /\ frame[Exec].pc \in {"returned", "raised"}
    /\ frame' = [frame EXCEPT ![Exec] = IdleFrame]
    /\ IF frame[Exec].pc = "returned"
       THEN /\ sweep_return' = Strip(accumulated_text)
            /\ spc' = "returned"
       ELSE SweepExcept
    /\ UNCHANGED <<active_connections, inbox, job_status, wpc, wjob, atAttach,
                   published, execVars, fanOutVars, restVars, analysisVars, response, finish,
                   accumulated_text, buffer, upstream, stopped>>

\* The stream ends without a chunk with finish_reason "stop" (another
\* finish_reason): the loop ends and the accumulated text is returned.
SweepEnd ==
    /\ spc = "stream"
    /\ response = <<>>
    /\ finish = "end"
    /\ sweep_return' = Strip(accumulated_text)
    /\ spc' = "returned"
    /\ UNCHANGED <<hubJobVars, fanOutVars, restVars, analysisVars, response, finish,
                   accumulated_text, buffer, upstream, stopped>>

\* The stream raises while it is read.
SweepError ==
    /\ spc = "stream"
    /\ response = <<>>
    /\ finish = "error"
    /\ SweepExcept
    /\ UNCHANGED <<hubJobVars, fanOutVars, restVars, analysisVars, response, finish,
                   accumulated_text, buffer, upstream, stopped>>
\* ------------------------------------------------------------- registry
\* No update of job_status was made yet.
NoRequest == [job |-> "none", report |-> "none", before |-> "none"]

InitRegistryIdle ==
    /\ request = NoRequest
    /\ nupdates = 0

\* The editor has not been started.
InitEditorIdle ==
    /\ edpc = "none"
    /\ edited_report = "none"
    /\ compile_call = "none"
    /\ sweep_call = "none"
    /\ nchunks = 0

\* The grounding stage has not been started.
InitGroundIdle ==
    /\ gpc = "none"
    /\ company_url = FALSE
    /\ crawled = "pending"
    /\ error_str = "unbound"

\* No job runs its briefing stage.
InitLimiterIdle ==
    /\ job_bpc = [j \in Jobs |-> "none"]
    /\ job_tpc = [j \in Jobs |-> [c \in Categories |-> "none"]]
    /\ job_semaphore = [j \in Jobs |-> 0]
    /\ job_waiters = [j \in Jobs |-> <<>>]

InitRestIdle == InitRegistryIdle /\ InitEditorIdle /\ InitGroundIdle /\ InitLimiterIdle

\* process_research(j, data) has found the report r: the registry update of
\* its job id, as the code makes it, whatever the record holds.
UpdateJob(j, r) ==
    /\ nupdates < MaxUpdates
    /\ nupdates' = nupdates + 1
    /\ request' = [job |-> j, report |-> r,
                   before |-> IF j \in DOMAIN job_status
                              THEN job_status[j].report ELSE "absent"]
    /\ job_status' = UpdateRecord(job_status, j, r)
    /\ UNCHANGED <<active_connections, frame, inbox, wpc, wjob, atAttach, published,
                   execVars, fanOutVars, analysisVars, sweepVars, editorVars, groundVars,
                   limiterVars>>


\* -------------------------------------------------------------- editor
\* What the editor leaves alone.
editorFrame == <<active_connections, frame, inbox, job_status, wpc, wjob, atAttach,
                 epc, nstage, mongodb, store, fanOutVars, analysisVars, sweepVars,
                 registryVars, groundVars, limiterVars>>

\* send_status_update called by a stage of the job: the event is published.
Emit(status, result) ==
    published' = Append(published,
        [job |-> JobA, by |-> Exec,
         ev |-> [id |-> Len(published) + 1, status |-> status,
                 error |-> "none", result |-> result]])

\* compile_briefings: the categories whose briefing key holds content.
IndividualBriefings == {c \in Categories : briefing_key[c] = "content"}

\* The keys of compile_briefings' dict briefing_keys, in its order.
BriefingKeysOrder == <<"company", "industry", "financial", "news">>

\* A collection that takes the briefings as the sub-tasks stored them.
StoredBriefings(bk) == briefing_order
\* The loop over briefing_keys.items(): the keys of individual_briefings in
\* insertion order, a category whose state key is empty or missing left out.
CollectedBriefings(bk) ==
    SelectSeq(BriefingKeysOrder, LAMBDA c : bk[c] = "content")

\* "\n\n".join(content for content in briefings.values()): the briefing of
\* category c stands for its text, "\n\n" for the separator.
RECURSIVE JoinBriefings(_)
JoinBriefings(cs) ==
    IF cs = <<>> THEN <<>>
    ELSE IF Len(cs) = 1 THEN <<cs[1]>>
    ELSE <<cs[1], "\n\n">> \o JoinBriefings(Tail(cs))

\* compile_content's combined_content for the briefing keys bk.
CombinedContent(bk) == JoinBriefings(CollectedBriefings(bk))

\* Editor.run starts: the first status update of compile_briefings.
EditorStart ==
    /\ epc = "graph"
    /\ edpc = "start"
    /\ Emit("processing", "none")
    /\ edpc' = "init_pub"
    /\ UNCHANGED <<editorFrame, state, edited_report, compile_call, sweep_call, nchunks>>

\* The two status updates of compile_briefings, outside any try block: an
\* exception of either ends the editor. After the second one the briefings
\* are collected: with none, nothing is compiled; otherwise edit_report
\* sends its "compilation" update.
CompileBriefingsUpdate(ok) ==
    /\ edpc \in {"init_pub", "collect_pub"}
    /\ IF ~ok
       THEN edpc' = "raised" /\ UNCHANGED <<published, state>>
       ELSE IF edpc = "init_pub"
       THEN /\ Emit("processing", "none")
            /\ edpc' = "collect_pub"
            /\ UNCHANGED state
       ELSE IF IndividualBriefings = {}
       THEN edpc' = "returned" /\ UNCHANGED <<published, state>>
       ELSE /\ Emit("processing", "none")
            /\ edpc' = "compile_pub"
            /\ state' = [state EXCEPT !.briefed = TRUE]
    /\ UNCHANGED <<editorFrame, edited_report, compile_call, sweep_call, nchunks>>

\* A "processing" update of edit_report is over; inside edit_report's try
\* block its exception makes edit_report return '': compile_content is
\* called after the first, the next update is sent after the second, and
\* content_sweep is called after the third.
EditReportUpdate(ok) ==
    /\ edpc \in {"compile_pub", "clean_pub", "format_pub"}
    /\ IF ~ok
       THEN edpc' = "returned" /\ UNCHANGED published
       ELSE IF edpc = "clean_pub"
       THEN Emit("processing", "none") /\ edpc' = "format_pub"
       ELSE /\ edpc' = IF edpc = "compile_pub" THEN "compile" ELSE "sweep"
            /\ UNCHANGED published
    /\ UNCHANGED <<editorFrame, state, edited_report, compile_call, sweep_call, nchunks>>

\* compile_content: the generative call gives the compiled report, gives an
\* empty text, or raises, and then the joined briefings are returned; an
\* empty edited_report makes edit_report return ''. No references are held.
CompileContent(outcome) ==
    /\ edpc = "compile"
    /\ compile_call' = outcome
    /\ edited_report' = IF outcome = "compiled" THEN "compiled"
                        ELSE IF outcome = "error" THEN "combined"
                        ELSE "empty"
    /\ IF edited_report' = "empty"
       THEN edpc' = "returned" /\ UNCHANGED published
       ELSE Emit("processing", "none") /\ edpc' = "clean_pub"
    /\ UNCHANGED <<editorFrame, state, sweep_call, nchunks>>

\* An edit_report that writes the report without its editor_complete update.
SweepReturnSilent(final) ==
    IF final = "empty"
    THEN edpc' = "returned" /\ UNCHANGED <<published, state>>
    ELSE /\ state' = [state EXCEPT !.report = final, !.editor = final]
         /\ edpc' = "complete_pub"
         /\ UNCHANGED published

\* edit_report after content_sweep returned the text final: an empty one is
\* given up; any other is written to state['report'] and
\* state['editor']['report'] and the editor_complete update is sent.
SweepReturn(final) ==
    IF final = "empty"
    THEN edpc' = "returned" /\ UNCHANGED <<published, state>>
    ELSE /\ state' = [state EXCEPT !.report = final, !.editor = final]
         /\ Emit("editor_complete", final)
         /\ edpc' = "complete_pub"

\* content_sweep: the streaming call is created, or it raises and the
\* content is returned as it came.
SweepCall(ok) ==
    /\ edpc = "sweep"
    /\ IF ok
       THEN /\ edpc' = "stream"
            /\ UNCHANGED <<published, state, sweep_call>>
       ELSE /\ sweep_call' = "error"
            /\ SweepReturn(edited_report)
    /\ UNCHANGED <<editorFrame, edited_report, compile_call, nchunks>>

\* A buffer of the stream is flushed in a report_chunk update.
StreamChunk ==
    /\ edpc = "stream"
    /\ nchunks < MaxChunks
    /\ nchunks' = nchunks + 1
    /\ Emit("report_chunk", "chunk")
    /\ edpc' = "chunk_pub"
    /\ UNCHANGED <<editorFrame, state, edited_report, compile_call, sweep_call>>

\* The report_chunk update is over; its exception is caught by content_sweep,
\* which returns the content as it came.
ChunkPublished(ok) ==
    /\ edpc = "chunk_pub"
    /\ IF ok
       THEN /\ edpc' = "stream"
            /\ UNCHANGED <<published, state, sweep_call>>
       ELSE /\ sweep_call' = "update_error"
            /\ SweepReturn(edited_report)
    /\ UNCHANGED <<editorFrame, edited_report, compile_call, nchunks>>

\* The stream is over: the stripped text is returned (it can be empty), or
\* the stream raised and the content is returned as it came.
StreamEnd(outcome) ==
    /\ edpc = "stream"
    /\ sweep_call' = outcome
    /\ SweepReturn(IF outcome = "cleaned" THEN "cleaned"
                   ELSE IF outcome = "error" THEN edited_report
                   ELSE "empty")
    /\ UNCHANGED <<editorFrame, edited_report, compile_call, nchunks>>

\* The editor_complete update is over: edit_report returns the report, or
\* (the update raised, which edit_report catches) '', with the report left
\* in the state either way.
EditorComplete ==
    /\ edpc = "complete_pub"
    /\ edpc' = "returned"
    /\ UNCHANGED <<editorFrame, published, state, edited_report, compile_call,
                   sweep_call, nchunks>>

\* Editor.run has returned and graph.run is over: process_research looks for
\* the report in the state the editor left.
EditedJobEnd ==
    /\ edpc = "returned"
    /\ \/ GraphReportOf({state})
       \/ GraphNoReportOf({state})

\* The editor raised: graph.run raises into process_research.
EditorRaised ==
    /\ edpc = "raised"
    /\ GraphRaise

\* ----------------------------------------------------------- grounding
\* What initial_search leaves alone.
groundFrame == <<job_status, wpc, wjob, atAttach, epc, nstage, mongodb, store,
                 fanOutVars, apc, queries, a_data, writes, returns, state_data,
                 failure, found, sweepVars, registryVars, editorVars, limiterVars,
                 company_url>>

\* The status update awaited by initial_search is over and no other is sent.
UpdateOver ==
    /\ frame' = [frame EXCEPT ![Exec] = IdleFrame]
    /\ UNCHANGED <<active_connections, inbox, published>>

\* The end of initial_search: research_state is built, with the key error
\* set to error_str when the message holds the mark of the except clause.
GroundReturn(marked) ==
    /\ state' = [EmptyState EXCEPT !.error = IF marked THEN error_str ELSE "none"]
    /\ gpc' = "returned"

\* The except clause of initial_search's try block: error_str = str(e), the
\* mark is added to the message and a website_error update is sent.
GroundExcept(e) ==
    /\ error_str' = e
    /\ SendUpdate(Exec, JobA, "website_error", e, "none", active_connections, frame)
    /\ gpc' = "error_pub"
    /\ UNCHANGED state

\* initial_search starts: the "Initialisation" update.
GroundStart ==
    /\ gpc = "start"
    /\ SendStatusUpdate(Exec, JobA, "processing", active_connections, frame)
    /\ gpc' = "init_pub"
    /\ UNCHANGED <<groundFrame, site_scrape, state, crawled, error_str>>

\* That update is over (its exception ends the stage): with a company_url
\* the "Exploration" update is sent, without one the update that says so.
GroundInitDone ==
    /\ gpc = "init_pub"
    /\ frame[Exec].pc \in {"returned", "raised"}
    /\ IF frame[Exec].pc = "raised"
       THEN /\ gpc' = "raised"
            /\ UpdateOver
            /\ UNCHANGED crawled
       ELSE /\ SendStatusUpdate(Exec, JobA, "processing", active_connections, frame)
            /\ gpc' = IF company_url THEN "explore_pub" ELSE "nourl_pub"
            /\ crawled' = IF company_url THEN crawled ELSE "none"
    /\ UNCHANGED <<groundFrame, site_scrape, state, error_str>>

\* The "Exploration" update is over, outside the try block: the crawl is
\* awaited, or the update's exception ends the stage.
GroundExploreDone ==
    /\ gpc = "explore_pub"
    /\ frame[Exec].pc \in {"returned", "raised"}
    /\ gpc' = IF frame[Exec].pc = "raised" THEN "raised" ELSE "crawl"
    /\ UpdateOver
    /\ UNCHANGED <<groundFrame, site_scrape, state, crawled, error_str>>

\* tavily_client.crawl is over: pages with content, none, or an exception;
\* the first two send a "processing" update inside the try block.
Crawl(outcome) ==
    /\ gpc = "crawl"
    /\ crawled' = outcome
    /\ IF outcome = "raise"
       THEN GroundExcept("crawl") /\ UNCHANGED site_scrape
       ELSE /\ site_scrape' = IF outcome = "pages" THEN {SitePage} ELSE {}
            /\ SendStatusUpdate(Exec, JobA, "processing", active_connections, frame)
            /\ gpc' = "found_pub"
            /\ UNCHANGED <<state, error_str>>
    /\ UNCHANGED groundFrame

\* The update after the crawl is over: the state is returned, or the
\* update's exception is caught by the except clause of the try block.
GroundFoundDone ==
    /\ gpc = "found_pub"
    /\ frame[Exec].pc \in {"returned", "raised"}
    /\ IF frame[Exec].pc = "raised"
       THEN GroundExcept("update")
       ELSE /\ UpdateOver
            /\ GroundReturn(FALSE)
            /\ UNCHANGED error_str
    /\ UNCHANGED <<groundFrame, site_scrape, crawled>>

\* The website_error update is over: the state is returned with the key
\* error, or the update's exception leaves the except clause and the stage.
GroundErrorDone ==
    /\ gpc = "error_pub"
    /\ frame[Exec].pc \in {"returned", "raised"}
    /\ UpdateOver
    /\ IF frame[Exec].pc = "raised"
       THEN gpc' = "raised" /\ UNCHANGED state
       ELSE GroundReturn(TRUE)
    /\ UNCHANGED <<groundFrame, site_scrape, crawled, error_str>>

\* The update of a run without company_url is over.
GroundNoUrlDone ==
    /\ gpc = "nourl_pub"
    /\ frame[Exec].pc \in {"returned", "raised"}
    /\ UpdateOver
    /\ IF frame[Exec].pc = "raised"
       THEN gpc' = "raised" /\ UNCHANGED state
       ELSE GroundReturn(FALSE)
    /\ UNCHANGED <<groundFrame, site_scrape, crawled, error_str>>

\* ------------------------------------- briefing stages of several jobs
\* What the briefing tasks of the jobs leave alone.
limiterFrame == <<hubJobVars, fanOutVars, analysisVars, sweepVars, registryVars,
                  editorVars, groundVars>>

\* create_briefings of job j, every category with curated data: the call
\* creates its own asyncio.Semaphore(2) and one task per category.
JobFanOut(j) ==
    /\ job_bpc[j] = "start"
    /\ job_bpc' = [job_bpc EXCEPT ![j] = "gather"]
    /\ job_semaphore' = [job_semaphore EXCEPT ![j] = SemaphoreCapacity]
    /\ job_tpc' = [job_tpc EXCEPT ![j] = [c \in Categories |-> "created"]]
    /\ UNCHANGED <<limiterFrame, job_waiters>>

\* locked() of the semaphore of job j.
JobLocked(j) ==
    \/ job_semaphore[j] = 0
    \/ job_waiters[j] # <<>>
    \/ \E c \in Categories : job_tpc[j][c] = "admitted"

\* process_briefing of job j for category c runs for the first time: it
\* enters the block of j's semaphore or queues on it.
JobTaskStart(j, c) ==
    /\ job_tpc[j][c] = "created"
    /\ \A d \in Categories : Pos(d) < Pos(c) => job_tpc[j][d] # "created"
    /\ IF ~JobLocked(j)
       THEN /\ job_semaphore' = [job_semaphore EXCEPT ![j] = @ - 1]
            /\ job_tpc' = [job_tpc EXCEPT ![j][c] = "inside"]
            /\ UNCHANGED job_waiters
       ELSE /\ job_waiters' = [job_waiters EXCEPT ![j] = Append(@, c)]
            /\ job_tpc' = [job_tpc EXCEPT ![j][c] = "waiting"]
            /\ UNCHANGED job_semaphore
    /\ UNCHANGED <<limiterFrame, job_bpc>>

\* A waiter of job j that was given a token runs again and enters the block.
JobEnter(j, c) ==
    /\ job_tpc[j][c] = "admitted"
    /\ job_tpc' = [job_tpc EXCEPT ![j][c] = "inside"]
    /\ UNCHANGED <<limiterFrame, job_bpc, job_semaphore, job_waiters>>

\* generate_category_briefing of job j for category c is over: the task
\* leaves the block and the token goes to j's oldest waiter or back.
JobTaskExit(j, c) ==
    /\ job_tpc[j][c] = "inside"
    /\ LET r == SemRelease(job_semaphore[j], job_waiters[j], job_tpc[j]) IN
       /\ job_semaphore' = [job_semaphore EXCEPT ![j] = r.value]
       /\ job_waiters' = [job_waiters EXCEPT ![j] = r.waiters]
       /\ job_tpc' = [job_tpc EXCEPT ![j] = [r.tpc EXCEPT ![c] = "finished"]]
    /\ UNCHANGED <<limiterFrame, job_bpc>>

\* gather of job j returns once every task of j has returned.
JobJoin(j) ==
    /\ job_bpc[j] = "gather"
    /\ \A c \in Categories : job_tpc[j][c] = "finished"
    /\ job_bpc' = [job_bpc EXCEPT ![j] = "returned"]
    /\ UNCHANGED <<limiterFrame, job_tpc, job_semaphore, job_waiters>>


\* ------------------------------------------------------ specifications
InitHub ==
    /\ active_connections = <<>>
    /\ frame = [t \in Tasks |-> IdleFrame]
    /\ inbox = [s \in Subs |-> <<>>]
    /\ job_status = <<>>
    /\ wpc = [s \in Subs |-> "new"]
    /\ wjob = [s \in Subs |-> "A"]
    /\ published = <<>>
    /\ atAttach = [s \in Subs |-> NoView]
    /\ epc = "none"
    /\ nstage = 0
    /\ mongodb = FALSE
    /\ store = "absent"
    /\ state = EmptyState
    /\ curated = [c \in Categories |-> FALSE]
    /\ bpc = "none"
    /\ tpc = [c \in Categories |-> "none"]
    /\ cancelling = {}
    /\ sem_value = SemaphoreCapacity
    /\ sem_waiters = <<>>
    /\ briefing_key = [c \in Categories |-> "unset"]
    /\ briefings = {}
    /\ state_briefings = FALSE
    /\ calls = [c \in Categories |-> <<>>]
    /\ briefing_order = <<>>
    /\ InitAnalysisIdle
    /\ InitSweepIdle
    /\ InitRestIdle

NextHub ==
    \/ \E s \in Subs, j \in Jobs : Attach(s, j)
    \/ \E s \in Subs : Detach(s)
    \/ \E p \in Pubs, j \in Jobs : PubCall(p, j)
    \/ \E t \in Tasks : Resume(t)

SpecHub == InitHub /\ [][NextHub]_vars

\* One run of process_research for JobA, with subscribers attaching to and
\* leaving the job at any moment.
Init ==
    /\ active_connections = <<>>
    /\ frame = [t \in Tasks |-> IdleFrame]
    /\ inbox = [s \in Subs |-> <<>>]
    /\ job_status = <<>>
    /\ wpc = [s \in Subs |-> "new"]
    /\ wjob = [s \in Subs |-> JobA]
    /\ published = <<>>
    /\ atAttach = [s \in Subs |-> NoView]
    /\ epc = "start"
    /\ nstage = 0
    /\ mongodb \in BOOLEAN
    /\ store = "absent"
    /\ state = EmptyState
    /\ curated = [c \in Categories |-> FALSE]
    /\ bpc = "none"
    /\ tpc = [c \in Categories |-> "none"]
    /\ cancelling = {}
    /\ sem_value = SemaphoreCapacity
    /\ sem_waiters = <<>>
    /\ briefing_key = [c \in Categories |-> "unset"]
    /\ briefings = {}
    /\ state_briefings = FALSE
    /\ calls = [c \in Categories |-> <<>>]
    /\ briefing_order = <<>>
    /\ InitAnalysisIdle
    /\ InitSweepIdle
    /\ InitRestIdle

Next ==
    \/ Start
    \/ Processing
    \/ AfterPublish
    \/ StagePublish
    \/ GraphReport
    \/ GraphNoReport
    \/ GraphRaise
    \/ HandlerDone
    \/ \E s \in Subs : Attach(s, JobA)
    \/ \E s \in Subs : AttachDone(s)
    \/ \E s \in Subs : Detach(s)
    \/ \E t \in Subs \cup {Exec} : Resume(t)

Spec == Init /\ [][Next]_vars

\* The same run, which the host may cancel.
NextHost ==
    \/ Start
    \/ Processing
    \/ AfterPublish
    \/ StagePublish
    \/ GraphReport
    \/ GraphNoReport
    \/ GraphRaise
    \/ HandlerDone
    \/ CancelJob
    \/ \E s \in Subs : Attach(s, JobA)
    \/ \E s \in Subs : AttachDone(s)
    \/ \E s \in Subs : Detach(s)
    \/ \E t \in Subs \cup {Exec} : Resume(t)

SpecHost == Init /\ [][NextHost]_vars

\* One run of Briefing.create_briefings, for every choice of the categories
\* that have curated data.
InitBriefing ==
    /\ active_connections = <<>>
    /\ frame = [t \in Tasks |-> IdleFrame]
    /\ inbox = [s \in Subs |-> <<>>]
    /\ job_status = <<>>
    /\ wpc = [s \in Subs |-> "new"]
    /\ wjob = [s \in Subs |-> JobA]
    /\ published = <<>>
    /\ atAttach = [s \in Subs |-> NoView]
    /\ epc = "none"
    /\ nstage = 0
    /\ mongodb = FALSE
    /\ store = "absent"
    /\ state = EmptyState
    /\ curated \in [Categories -> BOOLEAN]
    /\ bpc = "start"
    /\ tpc = [c \in Categories |-> "none"]
    /\ cancelling = {}
    /\ sem_value = SemaphoreCapacity
    /\ sem_waiters = <<>>
    /\ briefing_key = [c \in Categories |-> "unset"]
    /\ briefings = {}
    /\ state_briefings = FALSE
    /\ calls = [c \in Categories |-> <<>>]
    /\ briefing_order = <<>>
    /\ InitAnalysisIdle
    /\ InitSweepIdle
    /\ InitRestIdle

NextBriefing ==
    \/ BriefStart
    \/ BriefInitRaise
    \/ BriefFanOut
    \/ \E c \in Categories : TaskStart(c)
    \/ \E c \in Categories : Enter(c)
    \/ \E c \in Categories : StartPubRaise(c)
    \/ \E c \in Categories, outcome \in {"content", "empty", "error"} : Generate(c, outcome)
    \/ \E c \in Categories, ok \in BOOLEAN : Complete(c, ok)
    \/ Join
    \/ Cancel
    \/ \E c \in Categories : Cancelled(c)
    \/ CancelDone

SpecBriefing == InitBriefing /\ [][NextBriefing]_vars

\* The news scanner and the industry analyzer running side by side on one
\* job's state, with or without pages of the company's site.
InitAnalyze ==
    /\ active_connections = <<>>
    /\ frame = [t \in Tasks |-> IdleFrame]
    /\ inbox = [s \in Subs |-> <<>>]
    /\ job_status = <<>>
    /\ wpc = [s \in Subs |-> "new"]
    /\ wjob = [s \in Subs |-> JobA]
    /\ published = <<>>
    /\ atAttach = [s \in Subs |-> NoView]
    /\ epc = "none"
    /\ nstage = 0
    /\ mongodb = FALSE
    /\ store = "absent"
    /\ state = EmptyState
    /\ curated = [c \in Categories |-> FALSE]
    /\ bpc = "none"
    /\ tpc = [c \in Categories |-> "none"]
    /\ cancelling = {}
    /\ sem_value = SemaphoreCapacity
    /\ sem_waiters = <<>>
    /\ briefing_key = [c \in Categories |-> "unset"]
    /\ briefings = {}
    /\ state_briefings = FALSE
    /\ calls = [c \in Categories |-> <<>>]
    /\ briefing_order = <<>>
    /\ site_scrape \in {{}, {SitePage}}
    /\ apc = [a \in Analyzers |-> "start"]
    /\ queries = [a \in Analyzers |-> 0]
    /\ a_data = [a \in Analyzers |-> {}]
    /\ writes = [a \in Analyzers |-> {}]
    /\ returns = [a \in Analyzers |-> {}]
    /\ state_data = [a \in Analyzers |-> {}]
    /\ failure = [a \in Analyzers |-> "none"]
    /\ found = [a \in Analyzers |-> {}]
    /\ InitSweepIdle
    /\ InitRestIdle

NextAnalyze ==
    \/ \E a \in Analyzers, failed \in BOOLEAN, n \in 1..MaxQueries : AnalyzeStart(a, failed, n)
    \/ \E a \in Analyzers, ok \in BOOLEAN : QueriesPublished(a, ok)
    \/ \E a \in Analyzers, outcome \in {"documents", "site_url", "nothing", "raise"} :
          Search(a, outcome)
    \/ \E a \in Analyzers : SearchDone(a)
    \/ \E a \in Analyzers, ok \in BOOLEAN : FoundPublished(a, ok)

SpecAnalyze == InitAnalyze /\ [][NextAnalyze]_vars

\* The streams of at most MaxChunks chunks before their end.
Streams == UNION {[1..n -> ChunkTexts] : n \in 0..MaxChunks}

\* One run of Editor.content_sweep on the job's task, for every stream, with
\* subscribers attaching to and leaving the job at any moment.
InitSweep ==
    /\ active_connections = <<>>
    /\ frame = [t \in Tasks |-> IdleFrame]
    /\ inbox = [s \in Subs |-> <<>>]
    /\ job_status = <<>>
    /\ wpc = [s \in Subs |-> "new"]
    /\ wjob = [s \in Subs |-> JobA]
    /\ published = <<>>
    /\ atAttach = [s \in Subs |-> NoView]
    /\ epc = "graph"
    /\ nstage = 0
    /\ mongodb = FALSE
    /\ store = "absent"
    /\ state = EmptyState
    /\ curated = [c \in Categories |-> FALSE]
    /\ bpc = "none"
    /\ tpc = [c \in Categories |-> "none"]
    /\ cancelling = {}
    /\ sem_value = SemaphoreCapacity
    /\ sem_waiters = <<>>
    /\ briefing_key = [c \in Categories |-> "unset"]
    /\ briefings = {}
    /\ state_briefings = FALSE
    /\ calls = [c \in Categories |-> <<>>]
    /\ briefing_order = <<>>
    /\ InitAnalysisIdle
    /\ InitRestIdle
    /\ response \in Streams
    /\ upstream = response
    /\ finish \in {"stop", "end", "error"}
    /\ accumulated_text = <<>>
    /\ buffer = <<>>
    /\ spc = "create"
    /\ sweep_return = <<>>
    /\ stopped = FALSE

NextSweep ==
    \/ \E ok \in BOOLEAN : SweepCreate(ok)
    \/ SweepChunk
    \/ SweepFlushed
    \/ SweepStop
    \/ SweepFinalFlushed
    \/ SweepEnd
    \/ SweepError
    \/ \E s \in Subs : Attach(s, JobA)
    \/ \E s \in Subs : Detach(s)
    \/ Resume(Exec)

SpecSweep == InitSweep /\ [][NextSweep]_vars

\* The registry alone: runs of process_research that found a report update
\* job_status, in any order of job ids.
InitRegistry ==
    /\ active_connections = <<>>
    /\ frame = [t \in Tasks |-> IdleFrame]
    /\ inbox = [s \in Subs |-> <<>>]
    /\ job_status = <<>>
    /\ wpc = [s \in Subs |-> "new"]
    /\ wjob = [s \in Subs |-> JobA]
    /\ published = <<>>
    /\ atAttach = [s \in Subs |-> NoView]
    /\ epc = "none"
    /\ nstage = 0
    /\ mongodb = FALSE
    /\ store = "absent"
    /\ state = EmptyState
    /\ curated = [c \in Categories |-> FALSE]
    /\ bpc = "none"
    /\ tpc = [c \in Categories |-> "none"]
    /\ cancelling = {}
    /\ sem_value = SemaphoreCapacity
    /\ sem_waiters = <<>>
    /\ briefing_key = [c \in Categories |-> "unset"]
    /\ briefings = {}
    /\ state_briefings = FALSE
    /\ calls = [c \in Categories |-> <<>>]
    /\ briefing_order = <<>>
    /\ InitAnalysisIdle
    /\ InitSweepIdle
    /\ InitRestIdle

NextRegistry == \E j \in Jobs, r \in Reports : UpdateJob(j, r)

SpecRegistry == InitRegistry /\ [][NextRegistry]_vars

\* The editor on the briefings of one job, up to the job's end: the briefing
\* stage has left each category's key with content or empty, no durable
\* store is configured and nobody is subscribed.
InitEditor ==
    /\ active_connections = <<>>
    /\ frame = [t \in Tasks |-> IdleFrame]
    /\ inbox = [s \in Subs |-> <<>>]
    /\ job_status = <<>>
    /\ wpc = [s \in Subs |-> "new"]
    /\ wjob = [s \in Subs |-> JobA]
    /\ published = <<>>
    /\ atAttach = [s \in Subs |-> NoView]
    /\ epc = "graph"
    /\ nstage = 0
    /\ mongodb = FALSE
    /\ store = "absent"
    /\ state \in {InitialSearch(crawl) : crawl \in {"none", "ok", "raised"}}
    /\ briefing_key \in [Categories -> {"content", "empty"}]
    /\ curated = [c \in Categories |-> briefing_key[c] = "content"]
    /\ bpc = "returned"
    /\ tpc = [c \in Categories |-> "none"]
    /\ cancelling = {}
    /\ sem_value = SemaphoreCapacity
    /\ sem_waiters = <<>>
    /\ briefings = {c \in Categories : briefing_key[c] = "content"}
    /\ state_briefings = TRUE
    /\ calls = [c \in Categories |-> <<>>]
    /\ briefing_order = <<>>
    /\ InitAnalysisIdle
    /\ InitSweepIdle
    /\ InitRegistryIdle
    /\ InitGroundIdle
    /\ InitLimiterIdle
    /\ edpc = "start"
    /\ edited_report = "none"
    /\ compile_call = "none"
    /\ sweep_call = "none"
    /\ nchunks = 0

NextEditor ==
    \/ EditorStart
    \/ \E ok \in BOOLEAN : CompileBriefingsUpdate(ok)
    \/ \E ok \in BOOLEAN : EditReportUpdate(ok)
    \/ \E outcome \in {"compiled", "empty", "error"} : CompileContent(outcome)
    \/ \E ok \in BOOLEAN : SweepCall(ok)
    \/ StreamChunk
    \/ \E ok \in BOOLEAN : ChunkPublished(ok)
    \/ \E outcome \in {"cleaned", "empty", "error"} : StreamEnd(outcome)
    \/ EditorComplete
    \/ EditedJobEnd
    \/ EditorRaised
    \/ AfterPublish
    \/ HandlerDone

SpecEditor == InitEditor /\ [][NextEditor]_vars

\* One run of GroundingNode.initial_search on the job's task, with or
\* without a company_url, with subscribers attaching to and leaving the job
\* at any moment.
InitGrounding ==
    /\ active_connections = <<>>
    /\ frame = [t \in Tasks |-> IdleFrame]
    /\ inbox = [s \in Subs |-> <<>>]
    /\ job_status = <<>>
    /\ wpc = [s \in Subs |-> "new"]
    /\ wjob = [s \in Subs |-> JobA]
    /\ published = <<>>
    /\ atAttach = [s \in Subs |-> NoView]
    /\ epc = "graph"
    /\ nstage = 0
    /\ mongodb = FALSE
    /\ store = "absent"
    /\ state = EmptyState
    /\ curated = [c \in Categories |-> FALSE]
    /\ bpc = "none"
    /\ tpc = [c \in Categories |-> "none"]
    /\ cancelling = {}
    /\ sem_value = SemaphoreCapacity
    /\ sem_waiters = <<>>
    /\ briefing_key = [c \in Categories |-> "unset"]
    /\ briefings = {}
    /\ state_briefings = FALSE
    /\ calls = [c \in Categories |-> <<>>]
    /\ briefing_order = <<>>
    /\ InitAnalysisIdle
    /\ InitSweepIdle
    /\ InitRegistryIdle
    /\ InitEditorIdle
    /\ InitLimiterIdle
    /\ gpc = "start"
    /\ company_url \in BOOLEAN
    /\ crawled = "pending"
    /\ error_str = "unbound"

NextGrounding ==
    \/ GroundStart
    \/ GroundInitDone
    \/ GroundExploreDone
    \/ \E outcome \in {"pages", "nothing", "raise"} : Crawl(outcome)
    \/ GroundFoundDone
    \/ GroundErrorDone
    \/ GroundNoUrlDone
    \/ \E s \in Subs : Attach(s, JobA)
    \/ \E s \in Subs : Detach(s)
    \/ Resume(Exec)

SpecGrounding == InitGrounding /\ [][NextGrounding]_vars

\* The briefing stages of the jobs of two requests, each job a task of its
\* own on the one event loop.
InitJobs ==
    /\ active_connections = <<>>
    /\ frame = [t \in Tasks |-> IdleFrame]
    /\ inbox = [s \in Subs |-> <<>>]
    /\ job_status = <<>>
    /\ wpc = [s \in Subs |-> "new"]
    /\ wjob = [s \in Subs |-> JobA]
    /\ published = <<>>
    /\ atAttach = [s \in Subs |-> NoView]
    /\ epc = "none"
    /\ nstage = 0
    /\ mongodb = FALSE
    /\ store = "absent"
    /\ state = EmptyState
    /\ curated = [c \in Categories |-> FALSE]
    /\ bpc = "none"
    /\ tpc = [c \in Categories |-> "none"]
    /\ cancelling = {}
    /\ sem_value = SemaphoreCapacity
    /\ sem_waiters = <<>>
    /\ briefing_key = [c \in Categories |-> "unset"]
    /\ briefings = {}
    /\ state_briefings = FALSE
    /\ calls = [c \in Categories |-> <<>>]
    /\ briefing_order = <<>>
    /\ InitAnalysisIdle
    /\ InitSweepIdle
    /\ InitRegistryIdle
    /\ InitEditorIdle
    /\ InitGroundIdle
    /\ job_bpc = [j \in Jobs |-> "start"]
    /\ job_tpc = [j \in Jobs |-> [c \in Categories |-> "none"]]
    /\ job_semaphore = [j \in Jobs |-> 0]
    /\ job_waiters = [j \in Jobs |-> <<>>]

NextJobs ==
    \/ \E j \in Jobs : JobFanOut(j)
    \/ \E j \in Jobs, c \in Categories : JobTaskStart(j, c)
    \/ \E j \in Jobs, c \in Categories : JobEnter(j, c)
    \/ \E j \in Jobs, c \in Categories : JobTaskExit(j, c)
    \/ \E j \in Jobs : JobJoin(j)

SpecJobs == InitJobs /\ [][NextJobs]_vars

\* The event loop runs every task that is ready, and every awaited call of a
\* task (a status update, the generative call) comes to an end; the host's
\* cancellation is the only step that need not happen.
StageStep ==
    BriefStart \/ BriefInitRaise \/ BriefFanOut \/ Join \/ CancelDone
TaskStep(c) ==
    \/ TaskStart(c)
    \/ Enter(c)
    \/ StartPubRaise(c)
    \/ \E outcome \in {"content", "empty", "error"} : Generate(c, outcome)
    \/ \E ok \in BOOLEAN : Complete(c, ok)
    \/ Cancelled(c)
BriefingFairness ==
    /\ WF_vars(StageStep)
    /\ \A c \in Categories : WF_vars(TaskStep(c))
SpecBriefingLive == InitBriefing /\ [][NextBriefing]_vars /\ BriefingFairness


\* ================================================================ claims

\* The status the registry holds for JobA: job_status is a defaultdict whose
\* default record has status "pending".
RegistryStatus(js) == IF JobA \in DOMAIN js THEN js[JobA].status ELSE "pending"

Lifecycle ==
    {<<"pending", "processing">>, <<"processing", "completed">>,
     <<"processing", "failed">>}

\* C1: the status values the registry holds for a job follow
\* pending -> processing -> completed | failed: every change of the status
\* is one of these transitions, so a record is in processing before it is
\* terminal and no transition leaves a terminal status.
C1_RegistryLifecycle ==
    [][RegistryStatus(job_status') # RegistryStatus(job_status)
         => <<RegistryStatus(job_status), RegistryStatus(job_status')>> \in Lifecycle]_vars

\* C2: every run of process_research ends with no exception escaping and
\* with the registry record terminal; a run that published a failed event
\* (a stage raised, or the final state held no report) leaves the registry
\* record failed.
C2_EndsTerminal ==
    epc \in {"done", "escaped"} =>
        /\ epc = "done"
        /\ RegistryStatus(job_status) \in Terminal
        /\ LastStatus(ExecTerminal) = "failed" => RegistryStatus(job_status) = "failed"

\* C3: a subscriber that attaches after the job's run ended (completed or
\* failed) has, when its attach is over, received exactly one event, and the
\* status of that event is the status the run ended with.
C3_ReplayAfterTerminal ==
    [][\A s \in Subs :
         (wpc[s] # "listening" /\ wpc'[s] = "listening"
            /\ atAttach'[s].ended # "none")
         => /\ Len(inbox'[s]) = 1
            /\ inbox'[s][1].status = atAttach'[s].ended]_vars

\* C4: a subscriber that attaches after at least one event was published for
\* the job has, when its attach is over, been delivered an event with the
\* status of the most recent event published before it attached.
C4_ReplayOfLast ==
    [][\A s \in Subs :
         (wpc[s] # "listening" /\ wpc'[s] = "listening" /\ atAttach'[s].n > 0)
         => /\ Len(inbox'[s]) >= 1
            /\ inbox'[s][1].status = atAttach'[s].last]_vars

\* C5: every subscriber receives the events of a job in the order in which
\* the publish calls were made (event ids number the calls), also when two
\* calls are in flight at once.
C5_PublishOrder ==
    \A s \in Subs : \A i, k \in 1..Len(inbox[s]) :
        i < k => inbox[s][i].id <= inbox[s][k].id

\* C6: a connect or disconnect between two sends of a broadcast in flight
\* does not make the broadcast raise, and a broadcast that returns has
\* attempted delivery to every subscriber registered when it started.
C6_BroadcastSurvivesChange ==
    [][\A t \in Tasks :
         frame[t].pc = "sending"
         => /\ frame'[t].pc # "raised"
            /\ frame'[t].pc = "returned" => frame[t].snapshot \subseteq frame[t].attempted]_vars

\* C7: a broadcast in which a delivery failed does not raise, and when it
\* returns every subscriber whose delivery failed is unregistered and every
\* subscriber whose delivery succeeded is still registered.
C7_FailedDeliveryIsolated ==
    [][\A t \in Tasks :
         (frame[t].pc = "sending" /\ frame[t].disconnected # {})
         => /\ frame'[t].pc # "raised"
            /\ frame'[t].pc = "returned" =>
                 /\ frame[t].disconnected \cap ConnsOf(active_connections', frame[t].job) = {}
                 /\ (frame[t].attempted \ frame[t].disconnected)
                        \subseteq ConnsOf(active_connections', frame[t].job)]_vars

\* C8: at most one terminal outcome per job: process_research publishes at
\* most one terminal event, no failed event is published and the durable
\* store is not marked failed once the registry holds completed.
C8_OneTerminalOutcome ==
    /\ Len(ExecTerminal) <= 1
    /\ RegistryStatus(job_status) = "completed" =>
         /\ LastStatus(ExecTerminal) # "failed"
         /\ store # "failed"

\* C9: under every interleaving of the briefing sub-tasks, at most K = 2 of
\* them are inside the block guarded by the semaphore.
C9_AtMostTwoHolders ==
    Cardinality({c \in Categories : tpc[c] \in Holding}) <= 2

\* Two sub-tasks are inside the block while another one waits for a token.
C9_Witness ==
    /\ Cardinality({c \in Categories : tpc[c] \in Holding}) = 2
    /\ sem_waiters # <<>>

\* C10: every token taken is given back on every way out of the block: the
\* free tokens and the tokens held (inside the block, or handed to a waiter
\* that has not run yet) always add up to K, and once every sub-task has
\* ended (returned, raised or cancelled) the free capacity is K again.
C10_TokenReturned ==
    /\ sem_value + Cardinality({c \in Categories : tpc[c] \in Holding \cup {"admitted"}})
         = SemaphoreCapacity
    /\ (\A c \in Categories : tpc[c] \in Ended \cup {"none"})
         => sem_value = SemaphoreCapacity

\* Every sub-task has ended, one of them by an exception raised inside the
\* block and one by returning, and a waiter was admitted in between.
C10_Witness ==
    /\ \A c \in Categories : tpc[c] \in Ended
    /\ \E c \in Categories : tpc[c] = "raised"
    /\ \E c \in Categories : tpc[c] = "finished"
    /\ sem_value = SemaphoreCapacity

C12_FanInAfterAllTasks ==
    (bpc = "returned" \/ state_briefings) =>
        /\ \A c \in Categories : tpc[c] \in {"none", "finished"}
        /\ \A c \in Categories : briefing_key[c] # "unset"
C12_Witness ==
    /\ bpc = "returned"
    /\ state_briefings
    /\ Cardinality({c \in Categories : curated[c]}) >= 3
    /\ \E c \in Categories : curated[c] /\ briefing_key[c] = "empty"
    /\ \E c \in Categories : briefing_key[c] = "content"

\* C13: the news scanner and the industry analyzer, which run in parallel,
\* assign and return pairwise disjoint sets of state keys.
C13_DisjointKeys ==
    \A a, b \in Analyzers :
        a # b => (writes[a] \cup returns[a]) \cap (writes[b] \cup returns[b]) = {}

\* The documents analyzer a had gathered when its searches stopped: the
\* site's pages and the documents of the queries answered before.
Gathered(a) == site_scrape \cup found[a]

RegistryRecord(js) == IF JobA \in DOMAIN js THEN js[JobA] ELSE DefaultRecord
\* The last terminal event process_research has published for JobA.
LastTerminal == ExecTerminal[Len(ExecTerminal)].ev

\* C15: when no category has content, so that graph.run ends without a
\* report, the registry record becomes failed and the terminal failed event
\* carries the error that no report was found, also with a crawl error in
\* the state.
C15_NoContentFails ==
    (epc = "f_publish" /\ ~state.briefed) =>
        /\ RegistryRecord(job_status).status = "failed"
        /\ LastTerminal.status = "failed"
        /\ LastTerminal.error = "Aucun rapport trouve"

\* C16: when the crawl raised and the run still ended with the completed
\* event of a report, the registry record is completed with the report, the
\* crawl error is in its debug_info, and its error and the event's error are
\* empty.
C16_CrawlErrorInDebugInfo ==
    (/\ epc = "done"
     /\ state.error = "crawl"
     /\ Len(ExecTerminal) = 1
     /\ LastStatus(ExecTerminal) = "completed") =>
        /\ RegistryRecord(job_status).status = "completed"
        /\ RegistryRecord(job_status).report \in Reports
        /\ \E i \in DOMAIN RegistryRecord(job_status).debug_info :
              RegistryRecord(job_status).debug_info[i] = state.error
        /\ RegistryRecord(job_status).error = "none"
        /\ LastTerminal.error = "none"

\* C17: when the editor has stored a report, it is under state['report'] and
\* state['editor']['report'] alike, and process_research ends with the
\* registry record completed with that report and with a completed event
\* published that carries it.
C17_ReportEverywhere ==
    (epc \in {"done", "escaped"} /\ state.report # "none") =>
        /\ state.editor = state.report
        /\ RegistryRecord(job_status).status = "completed"
        /\ RegistryRecord(job_status).report = state.report
        /\ \E i \in DOMAIN ExecTerminal :
              /\ ExecTerminal[i].ev.status = "completed"
              /\ ExecTerminal[i].ev.result = state.report

\* The texts of a sequence of chunks, one after the other.
RECURSIVE Concat(_)
Concat(ts) == IF ts = <<>> THEN <<>> ELSE Head(ts) \o Concat(Tail(ts))
\* The payloads of the report_chunk events, in publication order.
ChunkEvents == SelectSeq(published, LAMBDA e : e.ev.status = "report_chunk")
ChunkPayloads == [i \in DOMAIN ChunkEvents |-> ChunkEvents[i].ev.result]

\* C18: once content_sweep has met the stop signal, the payloads of the
\* report_chunk events published, in order, make up the streamed text
\* exactly (the remainder of the buffer being the last of them).
C18_ChunksMakeText ==
    (stopped /\ spc = "returned") =>
        /\ Concat(ChunkPayloads) = Concat(upstream)
        /\ Concat(ChunkPayloads) = accumulated_text
C18_Witness ==
    /\ stopped
    /\ spc = "returned"
    /\ Len(ChunkEvents) = 2
    /\ ChunkPayloads[2] = Sec
    /\ sweep_return = Strip(accumulated_text)

\* C19: when the stream gives "Sec", then "tion 1.\n", then the stop signal,
\* two report_chunk events are published (for a subscriber to observe) that
\* together make up "Section 1.\n".
C19_ScenarioD ==
    (upstream = <<Sec, Tion>> /\ finish = "stop" /\ stopped /\ spc = "returned") =>
        /\ Len(ChunkEvents) = 2
        /\ Concat(ChunkPayloads) = Sec \o Tion

\* C20: when the host has cancelled the job's task, the registry record of
\* the job is failed with a cancellation error.
C20_CancelledIsFailed ==
    epc = "cancelled" =>
        /\ RegistryRecord(job_status).status = "failed"
        /\ RegistryRecord(job_status).error = "cancelled"

\* C21: a failure of a durable-store call does not change the job's outcome:
\* after create_job the run goes on to its sleep and never into the except
\* clause, and the step that records "completed" in the registry publishes
\* the completed event, never a failed one.
C21_StoreFailureHarmless ==
    [][/\ (epc = "start" => epc' # "h_publish")
       /\ (epc = "graph" /\ job_status' # job_status
              => /\ epc' = "c_publish"
                 /\ published'[Len(published')].ev.status = "completed")]_vars

C23_PublishWithoutSubscriber ==
    [][Len(published') > Len(published)
         => LET e == published'[Len(published')] IN
            ConnsOf(active_connections, e.job) = {}
              => /\ frame'[e.by].pc = "returned"
                 /\ inbox' = inbox
                 /\ active_connections' = active_connections]_vars

\* A publisher has published for a job nobody ever subscribed to, while the
\* other job has a subscriber, and no event was handed to anybody.
C23_Witness ==
    /\ published # <<>>
    /\ LET e == published[Len(published)] IN
       /\ e.by \in Pubs
       /\ frame[e.by].pc = "returned"
       /\ e.job \notin DOMAIN active_connections
       /\ \A s \in Subs : wpc[s] # "new" => wjob[s] # e.job
    /\ active_connections # <<>>
    /\ \A s \in Subs : inbox[s] = <<>>

\* The subscriber s was registered for job j and is no longer.
Unregistered(s, j) ==
    wpc[s] # "new" /\ wjob[s] = j /\ s \notin ConnsOf(active_connections, j)

\* The broadcast of frame f began after s had attached to f's job and, s not
\* being in the set it found, after s was unregistered.
BeganAfterUnregistering(f, s) ==
    /\ s \notin f.snapshot
    /\ atAttach[s].n < Cardinality({i \in DOMAIN published :
                                       published[i].job = f.job /\ i <= f.ev.id})

\* C24: after a subscriber has been unregistered from a job, every later
\* publish for that job returns without error, attempts no delivery to that
\* subscriber, and still delivers to the subscribers that remain registered.
C24_LaterPublishSkipsUnregistered ==
    [][\A t \in Tasks, s \in Subs :
          LET f == frame[t] IN
          (f.pc = "sending" /\ Unregistered(s, f.job) /\ BeganAfterUnregistering(f, s))
            => /\ frame'[t].pc # "raised"
               /\ inbox'[s] = inbox[s]
               /\ frame'[t].pc = "returned"
                    => ConnsOf(active_connections, f.job) \subseteq f.attempted]_vars

\* C25: unsubscribe is idempotent: disconnect of a socket that is not
\* registered for the job, a job the hub does not know included, leaves
\* active_connections as it was, so a second disconnect changes nothing after
\* the first; the endpoint's disconnect of a socket the hub has already
\* dropped is such a call.
C25_UnsubscribeIdempotent ==
    [][/\ \A s \in Subs, j \in Jobs :
             LET once == DisconnectMap(active_connections, {s}, j) IN
             /\ DisconnectMap(once, {s}, j) = once
             /\ s \notin ConnsOf(active_connections, j) => once = active_connections
       /\ \A s \in Subs :
             (wpc[s] = "listening" /\ wpc'[s] = "closed"
                 /\ Unregistered(s, wjob[s]))
               => active_connections' = active_connections]_vars

\* A broadcast has unregistered a subscriber whose send failed, other
\* registrations exist, and the subscriber's endpoint, still listening, is
\* to call disconnect for it once more.
C25_Witness ==
    \E s \in Subs :
       /\ wpc[s] = "listening"
       /\ Unregistered(s, wjob[s])
       /\ active_connections # <<>>
       /\ ENABLED Detach(s)

\* Both analyzers have finished, and the documents their searches returned
\* are under disjoint sets of URLs.
BothFinishedDisjoint ==
    /\ \A a \in Analyzers : apc[a] = "returned"
    /\ found["news"] \cap found["industry"] = {}

\* The number of entries the state holds across the analyzers' data keys.
Entries == Cardinality(state_data["news"]) + Cardinality(state_data["industry"])

\* C26 (as stated): two analyzers returning documents under disjoint URL sets
\* of sizes N1 and N2 leave exactly N1 + N2 entries across their data keys.
C26_EntriesAreSum ==
    BothFinishedDisjoint
      => Entries = Cardinality(found["news"]) + Cardinality(found["industry"])

\* C26 (amended): each analyzer's data key holds its own documents and the
\* pages of the company's site, so the state holds N1 + N2 entries plus, in
\* each data key, one entry per site page whose URL is not among that
\* analyzer's documents, whatever the order of the analyzers.
C26_EntriesAreSumAndSitePages ==
    BothFinishedDisjoint
      => /\ \A a \in Analyzers : state_data[a] = found[a] \cup site_scrape
         /\ Entries = Cardinality(found["news"]) + Cardinality(found["industry"])
                      + Cardinality(site_scrape \ found["news"])
                      + Cardinality(site_scrape \ found["industry"])

\* Both analyzers have finished with documents of their own, the site's page
\* in both data keys, and one of them has also found a document under the
\* site page's URL.
C26_Witness ==
    /\ BothFinishedDisjoint
    /\ site_scrape = {SitePage}
    /\ \A a \in Analyzers : \E q \in 1..MaxQueries : Doc(a, q) \in state_data[a]
    /\ SitePage \in found["news"]
    /\ Entries = 5

\* C27: the first event published for a job is the "processing" event of
\* process_research, published before any stage publishes for the job.
C27_ProcessingFirst ==
    LET evs == Published(JobA) IN
    evs # <<>> => /\ evs[1].ev.status = "processing"
                  /\ evs[1].by = Exec
                  /\ Len(evs) > nstage

\* C28: after the briefing stage has returned, a category without curated
\* data had no generative call and holds the empty string; every other one
\* had exactly one call and holds that call's content, or the empty string
\* when the call failed or returned nothing; and state['briefings'] holds
\* exactly the categories whose briefing key is not empty.
C28_BriefingKeys ==
    bpc = "returned" =>
        /\ \A c \in Categories :
              IF curated[c]
              THEN /\ Len(calls[c]) = 1
                   /\ briefing_key[c] =
                         IF calls[c][1] = "content" THEN "content" ELSE "empty"
              ELSE calls[c] = <<>> /\ briefing_key[c] = "empty"
        /\ state_briefings
        /\ briefings = {c \in Categories : briefing_key[c] = "content"}

\* The job's run is over.
JobEnded == epc \in {"done", "escaped"}

\* C29: when a briefing is non-empty and the compile call, the cleanup call
\* or both raise, the editor falls back to the concatenated briefings (to
\* the compiled text when only cleanup raised), a non-empty report is in the
\* state and the job ends completed, not failed.
C29_EditorFailureAbsorbed ==
    (/\ JobEnded
     /\ IndividualBriefings # {}
     /\ compile_call = "error" \/ sweep_call = "error")
      => /\ state.report # "none"
         /\ sweep_call = "error" => state.report = edited_report
         /\ compile_call = "error" => edited_report = "combined"
         /\ RegistryStatus(job_status) = "completed"
         /\ LastStatus(ExecTerminal) = "completed"

\* The status of the i-th event published.
StatusAt(i) == published[i].ev.status

\* C30: within one job every report_chunk event is published before the
\* editor_complete event, the editor_complete event before the terminal
\* completed event, and neither kind follows the terminal event.
C30_StageOrderAtEnd ==
    /\ \A i, j \in DOMAIN published :
          i < j =>
            /\ ~(StatusAt(i) = "editor_complete" /\ StatusAt(j) = "report_chunk")
            /\ ~(StatusAt(i) \in Terminal
                   /\ StatusAt(j) \in {"report_chunk", "editor_complete"})
    /\ \A j \in DOMAIN published :
          StatusAt(j) = "completed"
            => \E i \in 1..(j - 1) : StatusAt(i) = "editor_complete"

\* A job has ended after its cleanup streamed two chunks: report_chunk
\* events, then editor_complete, then the terminal completed event.
C30_Witness ==
    /\ JobEnded
    /\ nchunks >= 2
    /\ \E i, j, k \in DOMAIN published :
          /\ i < j /\ j < k
          /\ StatusAt(i) = "report_chunk"
          /\ StatusAt(j) = "editor_complete"
          /\ StatusAt(k) = "completed"

\* The place of a category in the fixed order company, industry, financial,
\* news.
Rank(c) ==
    IF c = "company" THEN 1 ELSE IF c = "industry" THEN 2
    ELSE IF c = "financial" THEN 3 ELSE 4

\* The briefings of a combined content, in the order they stand in it.
Sections(text) == SelectSeq(text, LAMBDA x : x \in Categories)

\* C31: the editor concatenates the available briefings in the order
\* company, industry, financial, news, whatever the order in which the
\* briefing sub-tasks completed and whichever categories are missing: the
\* combined content holds each non-empty briefing once, in that order, with
\* a separator between neighbours and nothing else.
C31_FixedCategoryOrder ==
    bpc = "returned" =>
        LET text == CombinedContent(briefing_key)
            secs == Sections(text) IN
        /\ {secs[i] : i \in DOMAIN secs} = {c \in Categories : briefing_key[c] = "content"}
        /\ \A i, j \in DOMAIN secs : i < j => Rank(secs[i]) < Rank(secs[j])
        /\ Len(text) = IF secs = <<>> THEN 0 ELSE 2 * Len(secs) - 1

\* The briefing stage has returned with a category missing and with the
\* others stored in an order that is not the editor's.
C31_Witness ==
    /\ bpc = "returned"
    /\ Len(briefing_order) >= 2
    /\ \E c \in Categories : briefing_key[c] = "empty"
    /\ \E i, j \in DOMAIN briefing_order :
          i < j /\ Rank(briefing_order[i]) > Rank(briefing_order[j])
    /\ Sections(CombinedContent(briefing_key)) # briefing_order

\* C32: during the streamed cleanup a report_chunk event is published after
\* an incoming text chunk exactly when the buffer, with that text added,
\* holds one of '.', '!', '?' or a newline and is longer than 10 characters,
\* and the event carries that buffer; the buffer is empty once the event's
\* update has returned and the stream is read on; and no report_chunk event,
\* the one at the completion signal included, has an empty payload.
C32_FlushExactlyOnCondition ==
    [][/\ (spc = "stream" /\ response # <<>> /\ Head(response) # <<>>
             /\ response' = Tail(response))
            => LET b == buffer \o Head(response) IN
               /\ (Len(published') = Len(published) + 1)
                     <=> (/\ Len(b) > 10
                          /\ {".", "!", "?", "\n"} \cap {b[i] : i \in DOMAIN b} # {})
               /\ Len(published') = Len(published) + 1
                     => /\ published'[Len(published')].ev.status = "report_chunk"
                        /\ published'[Len(published')].ev.result = b
               /\ Len(published') = Len(published) => buffer' = b
       /\ (spc = "flush_pub" /\ spc' = "stream") => buffer' = <<>>
       /\ \A i \in DOMAIN published' :
             published'[i].ev.status = "report_chunk"
               => published'[i].ev.result # <<>>]_vars

\* The stream is read on after one flush (of "Section 1.\n", 11 characters)
\* emptied the buffer, and a later chunk with a full stop, 8 characters long,
\* has been kept in the buffer without a flush.
C32_Witness ==
    /\ spc = "stream"
    /\ Len(ChunkEvents) = 1
    /\ ChunkPayloads[1] = Sec \o Tion
    /\ buffer = Tion

\* C33: the grounding stage never fails because of the crawl: when the crawl
\* raises, the stage publishes a website_error event and returns a state
\* with an empty site_scrape and the key error set to the crawl's error
\* text; when no URL is given or the crawl succeeds, the returned state has
\* no key error.
C33_CrawlNeverFailsGrounding ==
    /\ (crawled = "raise" /\ gpc \in {"returned", "raised"})
          => /\ gpc = "returned"
             /\ \E i \in DOMAIN published : published[i].ev.status = "website_error"
             /\ site_scrape = {}
             /\ state.error = "crawl"
    /\ (crawled \in {"none", "pages", "nothing"} /\ gpc = "returned")
          => state.error = "none"

\* C34: the replay performed when a subscriber attaches is delivered only to
\* the attaching subscriber: every event a subscriber has been delivered
\* that was published by an attach was published by its own attach.
C34_ReplayOnlyToAttaching ==
    \A s \in Subs : \A i \in DOMAIN inbox[s] :
        published[inbox[s][i].id].by \in Subs
            => published[inbox[s][i].id].by = s

\* C35: the registry is updated before the terminal event is sent: whenever
\* the completed event of the job's run is published, and so whenever a
\* subscriber has been delivered it, the registry record of the job has the
\* status completed and the report of the event, and a report fetch from the
\* registry returns that report.
C35_RegistryBeforeCompleted ==
    \A i \in DOMAIN published :
        (published[i].by = Exec /\ published[i].ev.status = "completed")
            => /\ published[i].job \in DOMAIN job_status
               /\ job_status[published[i].job].status = "completed"
               /\ job_status[published[i].job].report = published[i].ev.result
               /\ ~mongodb =>
                    GetResearchReport(job_status, published[i].job)
                        = published[i].ev.result

C35_Witness ==
    \E s \in Subs : \E i \in DOMAIN inbox[s] :
        /\ inbox[s][i].status = "completed"
        /\ published[inbox[s][i].id].by = Exec
        /\ inbox[s][i].result # "none"
        /\ ~mongodb
        /\ GetResearchReport(job_status, JobA) = inbox[s][i].result

\* C36: given the curated data and the result of each category's generative
\* call, the state after the briefing fan-in is the same for every
\* interleaving and completion order of the sub-tasks: each category's
\* briefing key and its entry of state['briefings'] are the content of the
\* category's own call, no write being lost or overwritten by a sibling.
C36_FanInDeterminedByCalls ==
    bpc = "returned" =>
        \A c \in Categories :
            LET generated == /\ curated[c]
                             /\ calls[c] # <<>>
                             /\ calls[c][Len(calls[c])] = "content"
            IN /\ briefing_key[c] = "content" <=> generated
               /\ c \in briefings <=> generated

\* C37: the limiter's capacity of 2 bounds the briefing generative calls of
\* all jobs together: the number of briefing sub-tasks inside the guarded
\* section, summed over the jobs, never exceeds 2.
C37_CapacityOverAllJobs ==
    Cardinality({jc \in Jobs \X Categories : job_tpc[jc[1]][jc[2]] = "inside"})
        <= SemaphoreCapacity

\* C38: events are isolated per job: an event is delivered only to a
\* subscriber registered, at that moment, for the job it was published for,
\* never to a subscriber of another job; and the subscriber set of a job
\* changes only in a step on that job (an attach or a detach of one of its
\* subscribers, the end of one of its broadcasts), so that a delivery
\* failure or an unsubscribe on one job leaves the set of every other job
\* unchanged.
C38_JobsIsolated ==
    [][/\ \A s \in Subs :
            inbox'[s] # inbox[s]
              => LET e == inbox'[s][Len(inbox'[s])] IN
                 /\ published'[e.id].job = wjob'[s]
                 /\ s \in ConnsOf(active_connections', published'[e.id].job)
       /\ \A k \in Jobs :
            ConnsOf(active_connections', k) # ConnsOf(active_connections, k)
              => \/ \E s \in Subs : wpc'[s] # wpc[s] /\ wjob'[s] = k
                 \/ \E t \in Tasks : /\ frame[t].pc = "sending"
                                     /\ frame[t].job = k
                                     /\ frame'[t].pc = "returned"]_vars

\* A subscriber of job A was delivered an event and then dropped after a
\* failed delivery, while the subscriber of job B is still registered and
\* was delivered nothing.
C38_Witness ==
    /\ wjob[1] = "A" /\ wjob[2] = "B"
    /\ wpc[1] = "listening"
    /\ inbox[1] # <<>>
    /\ 1 \notin ConnsOf(active_connections, "A")
    /\ 2 \in ConnsOf(active_connections, "B")
    /\ inbox[2] = <<>>
    /\ \A i \in DOMAIN published : published[i].job = "A"

\* C39: the connection map never holds a job id mapped to an empty set: a
\* job id is in active_connections exactly when it has at least one
\* registered subscriber.
C39_NoEmptySubscriberSet ==
    /\ \A j \in DOMAIN active_connections : active_connections[j] # {}
    /\ \A j \in Jobs :
          j \in DOMAIN active_connections
             <=> \E s \in Subs : s \in ConnsOf(active_connections, j)

\* The last subscriber of job A has left and its key is gone, while job B
\* still has its subscriber.
C39_Witness ==
    /\ wjob[1] = "A" /\ wpc[1] = "closed"
    /\ "A" \notin DOMAIN active_connections
    /\ "B" \in DOMAIN active_connections
    /\ active_connections["B"] = {2}

====
